---------------------------- MODULE Spec2Model ----------------------------
(***************************************************************************)
(* A model of the invoice field-extraction engine of invoice_processor:    *)
(* the validators of the pattern library, the banking extractor, the       *)
(* confidence scorer, the four strategies' can_handle predicates and the   *)
(* orchestrator parse_invoice with its optional ML collaborators.          *)
(*                                                                         *)
(* Python strings are sequences of one-character strings, so that the      *)
(* validators and normalisers are computed character by character.  A      *)
(* regular-expression search of the source is not interpreted: its first   *)
(* match on the document is an input (a candidate), drawn from a small set *)
(* of strings the pattern can produce.  None and the empty string are both *)
(* the empty sequence: the code modelled here only tests them for truth.   *)
(*                                                                         *)
(* Python floats are IEEE-754 doubles.  Every double that occurs is a      *)
(* multiple of 2^-60 in [0, 1], and is kept exactly as three limbs of 20    *)
(* bits; addition rounds to 53 significant bits, ties to even.             *)
(***************************************************************************)
EXTENDS Integers, Sequences, FiniteSets, TLC

(***************************************************************************)
(* Characters and the str methods the code uses                            *)
(***************************************************************************)
DigitSeq == <<"0", "1", "2", "3", "4", "5", "6", "7", "8", "9">>
UpperSeq == <<"A", "B", "C", "D", "E", "F", "G", "H", "I", "J", "K", "L", "M",
              "N", "O", "P", "Q", "R", "S", "T", "U", "V", "W", "X", "Y", "Z">>
LowerSeq == <<"a", "b", "c", "d", "e", "f", "g", "h", "i", "j", "k", "l", "m",
              "n", "o", "p", "q", "r", "s", "t", "u", "v", "w", "x", "y", "z">>

IndexOf(s, c) == CHOOSE i \in 1..Len(s) : s[i] = c

\* the characters int() and float() read as digits
IsDecimalChar(c) == \E i \in 1..Len(DigitSeq) : DigitSeq[i] = c
\* str.isdigit: the decimal digits and digits int() does not read, such as the
\* superscript two ("sup2")
IsDigitChar(c) == IsDecimalChar(c) \/ c = "sup2"
IsUpperChar(c) == \E i \in 1..Len(UpperSeq) : UpperSeq[i] = c
IsLowerChar(c) == \E i \in 1..Len(LowerSeq) : LowerSeq[i] = c
IsAlphaChar(c) == IsUpperChar(c) \/ IsLowerChar(c)
IsSpaceChar(c) == c \in {" ", "\t", "\n"}

\* int(c) of a digit character
DigitVal(c) == IndexOf(DigitSeq, c) - 1
UpperChar(c) == IF IsLowerChar(c) THEN UpperSeq[IndexOf(LowerSeq, c)] ELSE c
\* int(c, 36) of a letter: A=10 ... Z=35
Base36Val(c) == 9 + IndexOf(UpperSeq, UpperChar(c))

\* s[a:b] with 0 <= a, as Python slices (clipped to the string)
Slice(s, a, b) == SubSeq(s, a + 1, IF b <= Len(s) THEN b ELSE Len(s))
\* s.replace(c, '')
Remove(s, c) == SelectSeq(s, LAMBDA x : x # c)
\* s.replace(c, d) for single characters
ReplaceChar(s, c, d) == [i \in 1..Len(s) |-> IF s[i] = c THEN d ELSE s[i]]
StrUpper(s) == [i \in 1..Len(s) |-> UpperChar(s[i])]
StrLower(s) ==
    [i \in 1..Len(s) |-> IF IsUpperChar(s[i]) THEN LowerSeq[IndexOf(UpperSeq, s[i])] ELSE s[i]]
\* str.isalpha / isdigit / isalnum: false on the empty string
StrIsAlpha(s) == Len(s) > 0 /\ \A i \in 1..Len(s) : IsAlphaChar(s[i])
StrIsDigit(s) == Len(s) > 0 /\ \A i \in 1..Len(s) : IsDigitChar(s[i])
StrIsAlnum(s) == Len(s) > 0 /\ \A i \in 1..Len(s) : IsAlphaChar(s[i]) \/ IsDigitChar(s[i])
\* c in s, for a character c
HasChar(s, c) == \E i \in 1..Len(s) : s[i] = c
\* sub in s
Contains(s, sub) ==
    \E i \in 0..(Len(s) - Len(sub)) : SubSeq(s, i + 1, i + Len(sub)) = sub

RECURSIVE LStrip(_)
LStrip(s) == IF Len(s) > 0 /\ IsSpaceChar(s[1]) THEN LStrip(Tail(s)) ELSE s
RECURSIVE RStrip(_)
RStrip(s) ==
    IF Len(s) > 0 /\ IsSpaceChar(s[Len(s)])
    THEN RStrip(SubSeq(s, 1, Len(s) - 1)) ELSE s
\* s.strip()
Strip(s) == RStrip(LStrip(s))

(***************************************************************************)
(* IEEE-754 doubles in [0, 1]: <<hi, mid, lo>> is (hi*B^2 + mid*B + lo)     *)
(* times 2^-60, with B = 2^20.                                             *)
(***************************************************************************)
LimbBase == 2^20

RECURSIVE Pow2(_)
Pow2(k) == IF k = 0 THEN 1 ELSE 2 * Pow2(k - 1)
\* the number of bits of n > 0
RECURSIVE BitLen(_)
BitLen(n) == IF n = 0 THEN 0 ELSE 1 + BitLen(n \div 2)

\* carries of a limb triple whose limbs overflowed
FNormalize(h, m, l) ==
    LET m1 == m + (l \div LimbBase)
    IN  <<h + (m1 \div LimbBase), m1 % LimbBase, l % LimbBase>>

\* round-to-nearest, ties-to-even, to 53 significant bits
FRound(n) ==
    LET bits == 40 + BitLen(n[1])
    IN  IF n[1] = 0 \/ bits <= 53 THEN n
        ELSE LET q    == Pow2(bits - 53)
                 r    == n[3] % q
                 down == n[3] - r
                 up   == r * 2 > q \/ (r * 2 = q /\ (n[3] \div q) % 2 = 1)
             IN  IF up THEN FNormalize(n[1], n[2], down + q)
                 ELSE <<n[1], n[2], down>>

\* a + b on doubles
FAdd(a, b) == FRound(FNormalize(a[1] + b[1], a[2] + b[2], a[3] + b[3]))
FLess(a, b) ==
    \/ a[1] < b[1]
    \/ a[1] = b[1] /\ a[2] < b[2]
    \/ a[1] = b[1] /\ a[2] = b[2] /\ a[3] < b[3]
FLeq(a, b) == a = b \/ FLess(a, b)
\* min(a, b)
FMin(a, b) == IF FLess(b, a) THEN b ELSE a

F_0    == <<0, 0, 0>>
F_0005 == <<5242, 922746, 922747>>       \* 0.005
F_001  == <<10485, 796917, 796918>>      \* 0.01
F_0015 == <<15728, 671088, 671088>>      \* 0.015
F_003  == <<31457, 293601, 293600>>      \* 0.03
F_005  == <<52428, 838860, 838864>>      \* 0.05
F_010  == <<104857, 629145, 629152>>     \* 0.10
F_015  == <<157286, 419430, 419424>>     \* 0.15
F_020  == <<209715, 209715, 209728>>     \* 0.20
F_030  == <<314572, 838860, 838848>>     \* 0.30
F_050  == <<524288, 0, 0>>               \* 0.5
F_090  == <<943718, 419430, 419456>>     \* 0.9
F_1    == <<1048576, 0, 0>>              \* 1.0

(***************************************************************************)
(* core/constants.py                                                       *)
(***************************************************************************)
PARSING_FAILED == <<"P", "A", "R", "S", "I", "N", "G", " ", "F", "A", "I", "L", "E", "D">>
\* None, and the empty string
NoMatch == <<>>

(***************************************************************************)
(* parsers/pattern_library.py: validators                                  *)
(***************************************************************************)
SEPA_COUNTRIES == {
    <<"A", "T">>, <<"B", "E">>, <<"B", "G">>, <<"H", "R">>, <<"C", "Y">>, <<"C", "Z">>,
    <<"D", "K">>, <<"E", "E">>, <<"F", "I">>, <<"F", "R">>, <<"D", "E">>, <<"G", "R">>,
    <<"H", "U">>, <<"I", "S">>, <<"I", "E">>, <<"I", "T">>, <<"L", "V">>, <<"L", "I">>,
    <<"L", "T">>, <<"L", "U">>, <<"M", "T">>, <<"M", "C">>, <<"N", "L">>, <<"N", "O">>,
    <<"P", "L">>, <<"P", "T">>, <<"R", "O">>, <<"S", "M">>, <<"S", "K">>, <<"S", "I">>,
    <<"E", "S">>, <<"S", "E">>, <<"C", "H">>, <<"G", "B">>, <<"V", "A">>, <<"A", "D">>}

\* int(numeric) % 97 for numeric = the digits of s with each letter replaced by its
\* base-36 value, read as int() reads a string: whitespace around it is skipped,
\* a sign may lead, single underscores may stand between digits; -1 when int()
\* raises ValueError
RECURSIVE Mod97From(_, _, _)
Mod97From(s, i, acc) ==
    IF i > Len(s) THEN acc
    ELSE IF IsDecimalChar(s[i]) THEN Mod97From(s, i + 1, (acc * 10 + DigitVal(s[i])) % 97)
    ELSE IF IsAlphaChar(s[i]) THEN Mod97From(s, i + 1, (acc * 100 + Base36Val(s[i])) % 97)
    ELSE IF /\ s[i] = "_" /\ 1 < i /\ i < Len(s)
            /\ IsDecimalChar(s[i - 1]) \/ IsAlphaChar(s[i - 1])
            /\ IsDecimalChar(s[i + 1]) \/ IsAlphaChar(s[i + 1])
    THEN Mod97From(s, i + 1, acc)
    ELSE -1
Mod97(s) ==
    LET t == Strip(s)
        u == IF t # <<>> /\ t[1] \in {"+", "-"} THEN Tail(t) ELSE t
    IN  IF u = <<>> \/ Mod97From(u, 1, 0) = -1 THEN -1
        ELSE IF t[1] = "-" THEN (97 - Mod97From(u, 1, 0)) % 97
        ELSE Mod97From(u, 1, 0)

validate_iban(iban) ==
    IF iban = NoMatch THEN FALSE
    ELSE LET n == StrUpper(Remove(Remove(iban, " "), "-"))
         IN  IF Len(n) < 15 \/ Len(n) > 34 THEN FALSE
             ELSE IF ~StrIsAlpha(Slice(n, 0, 2)) THEN FALSE
             ELSE IF ~StrIsDigit(Slice(n, 2, 4)) THEN FALSE
             ELSE Mod97(Slice(n, 4, Len(n)) \o Slice(n, 0, 4)) = 1

validate_bic(bic) ==
    IF bic = NoMatch THEN FALSE
    ELSE LET b == StrUpper(Remove(bic, " "))
         IN  IF Len(b) \notin {8, 11} THEN FALSE
             ELSE IF ~StrIsAlpha(Slice(b, 0, 4)) THEN FALSE
             ELSE IF ~StrIsAlpha(Slice(b, 4, 6)) THEN FALSE
             ELSE IF ~StrIsAlnum(Slice(b, 6, 8)) THEN FALSE
             ELSE IF Len(b) = 11 /\ ~StrIsAlnum(Slice(b, 8, 11)) THEN FALSE
             ELSE TRUE

AbaDegenerate == {
    <<"0", "0", "0", "0", "0", "0", "0", "0", "0">>,
    <<"1", "1", "1", "1", "1", "1", "1", "1", "1">>,
    <<"9", "9", "9", "9", "9", "9", "9", "9", "9">>}

\* whether validate_aba_routing raises ValueError: int() at line 676 or lines 681-683
\* meets a character that passed str.isdigit at line 668 and is no decimal digit
validate_aba_routing_raises(routing) ==
    IF routing = NoMatch \/ Len(routing) # 9 \/ ~StrIsDigit(routing) THEN FALSE
    ELSE IF routing \in AbaDegenerate THEN FALSE
    ELSE IF \E i \in 1..2 : ~IsDecimalChar(routing[i]) THEN TRUE
    ELSE LET first_two == 10 * DigitVal(routing[1]) + DigitVal(routing[2])
         IN  IF ~(\/ (1 <= first_two /\ first_two <= 12)
                  \/ (21 <= first_two /\ first_two <= 32)
                  \/ (61 <= first_two /\ first_two <= 72)
                  \/ (80 <= first_two /\ first_two <= 80))
             THEN FALSE
             ELSE \E i \in 3..9 : ~IsDecimalChar(routing[i])

\* the value validate_aba_routing returns when it does not raise
validate_aba_routing(routing) ==
    IF routing = NoMatch \/ Len(routing) # 9 \/ ~StrIsDigit(routing) THEN FALSE
    ELSE IF routing \in AbaDegenerate THEN FALSE
    ELSE LET first_two == 10 * DigitVal(routing[1]) + DigitVal(routing[2])
         IN  IF ~(\/ (1 <= first_two /\ first_two <= 12)
                  \/ (21 <= first_two /\ first_two <= 32)
                  \/ (61 <= first_two /\ first_two <= 72)
                  \/ (80 <= first_two /\ first_two <= 80))
             THEN FALSE
             ELSE (3 * (DigitVal(routing[1]) + DigitVal(routing[4]) + DigitVal(routing[7])) +
                   7 * (DigitVal(routing[2]) + DigitVal(routing[5]) + DigitVal(routing[8])) +
                   1 * (DigitVal(routing[3]) + DigitVal(routing[6]) + DigitVal(routing[9]))) % 10 = 0

validate_sort_code(sort_code) ==
    LET clean == Remove(Remove(sort_code, "-"), " ")
    IN  Len(clean) = 6 /\ StrIsDigit(clean)

\* normalize_sort_code that removes the hyphens only
normalize_sort_code_hyphens_only(sort_code) ==
    LET clean == Remove(sort_code, "-")
    IN  Slice(clean, 0, 2) \o <<"-">> \o Slice(clean, 2, 4) \o <<"-">> \o Slice(clean, 4, 6)

normalize_sort_code(sort_code) ==
    LET clean == Remove(Remove(sort_code, "-"), " ")
    IN  Slice(clean, 0, 2) \o <<"-">> \o Slice(clean, 2, 4) \o <<"-">> \o Slice(clean, 4, 6)

(***************************************************************************)
(* Python dicts: functions from key to value                               *)
(***************************************************************************)
\* d.get(k, default)
Get(d, k, default) == IF k \in DOMAIN d THEN d[k] ELSE default
\* d.update(e), as a value
Update(d, e) == [k \in DOMAIN d \cup DOMAIN e |-> IF k \in DOMAIN e THEN e[k] ELSE d[k]]
\* the truth value of a str (or None)
Truthy(s) == s # NoMatch
\* the first truthy entry of a list of pattern results, else None
RECURSIVE FirstMatch(_)
FirstMatch(cands) ==
    IF cands = <<>> THEN NoMatch
    ELSE IF Truthy(Head(cands)) THEN Head(cands)
    ELSE FirstMatch(Tail(cands))

(***************************************************************************)
(* parsers/parser_utils.py                                                 *)
(***************************************************************************)
SEPA               == <<"S", "E", "P", "A">>
SEPA_INTERNATIONAL == <<"S", "E", "P", "A", "_", "I", "N", "T", "E", "R", "N", "A", "T", "I", "O", "N", "A", "L">>
ACH                == <<"A", "C", "H">>
BACS               == <<"B", "A", "C", "S">>
NOT_AVAILABLE      == <<"N", "/", "A">>

BankingKeys == {"iban", "bic", "bank_name", "payment_address", "routing_number",
                "account_number", "sort_code", "payment_method"}
MetadataKeys == {"invoice_number", "invoice_date", "due_date", "payment_terms"}
TaxKeys == {"tax_amount", "tax_rate", "tax_id"}
PartyKeys == {"sender", "recipient", "sender_address", "recipient_address",
              "sender_email", "recipient_email"}
ResultKeys == PartyKeys \cup {"amount", "currency"} \cup MetadataKeys \cup TaxKeys
                  \cup {"vehicle_id", "original_recipient", "vehicle_match_score"}
                  \cup BankingKeys

create_default_result ==
    [k \in ResultKeys |->
        IF k = "vehicle_id" THEN NOT_AVAILABLE
        ELSE IF k = "vehicle_match_score" THEN <<"0", ".", "0">>
        ELSE PARSING_FAILED]

\* is_valid_email: exactly one '@', a non-empty local part, a domain with a dot
\* and no empty dot-separated part
CountChar(s, c) == Cardinality({i \in 1..Len(s) : s[i] = c})
is_valid_email(email) ==
    IF ~Truthy(email) \/ email = PARSING_FAILED THEN FALSE
    ELSE IF ~HasChar(email, "@") THEN FALSE
    ELSE IF CountChar(email, "@") # 1 THEN FALSE
    ELSE LET at     == IndexOf(email, "@")
             local  == SubSeq(email, 1, at - 1)
             domain == SubSeq(email, at + 1, Len(email))
         IN  IF Len(local) < 1 THEN FALSE
             ELSE IF ~HasChar(domain, ".") THEN FALSE
             ELSE IF \/ domain[1] = "."
                     \/ domain[Len(domain)] = "."
                     \/ \E i \in 1..(Len(domain) - 1) : domain[i] = "." /\ domain[i + 1] = "."
                  THEN FALSE
             ELSE TRUE

\* float(s) > 0 for s of digits, '.', and surrounding whitespace; any other string
\* makes float() raise ValueError, which the caller swallows (no points)
FloatIsPositive(s) ==
    LET t == Strip(s)
    IN  /\ \A i \in 1..Len(t) : IsDecimalChar(t[i]) \/ t[i] = "."
        /\ CountChar(t, ".") <= 1
        /\ \E i \in 1..Len(t) : IsDecimalChar(t[i])
        /\ \E i \in 1..Len(t) : IsDecimalChar(t[i]) /\ t[i] # "0"

\* float(s) for s of digits, '.', a sign and surrounding whitespace: None where
\* float() raises ValueError, else <<n, k>>, the double nearest to n / 10^k with k
\* the smallest possible (short decimals are equal as doubles exactly when equal
\* as numbers)
float(s) ==
    LET t      == Strip(s)
        signed == t # <<>> /\ t[1] \in {"-", "+"}
        body   == IF signed THEN Tail(t) ELSE t
        digits == Remove(body, ".")
        dot    == IF HasChar(body, ".") THEN IndexOf(body, ".") ELSE Len(body)
        RECURSIVE IntOf(_, _)
        IntOf(i, acc) == IF i > Len(digits) THEN acc
                         ELSE IntOf(i + 1, 10 * acc + DigitVal(digits[i]))
        RECURSIVE Shorten(_, _)
        Shorten(n, k) == IF k > 0 /\ n % 10 = 0 THEN Shorten(n \div 10, k - 1) ELSE <<n, k>>
    IN  IF \/ digits = <<>>
           \/ \E i \in 1..Len(digits) : ~IsDecimalChar(digits[i])
           \/ CountChar(body, ".") > 1
        THEN NoMatch
        ELSE LET v == Shorten(IntOf(1, 0), Len(body) - dot)
             IN  IF signed /\ t[1] = "-" THEN <<0 - v[1], v[2]>> ELSE v

\* normalize_amount reading a comma after a dot as the decimal separator under
\* every hint
normalize_amount_last_decides(amount_str, currency, language) ==
    IF amount_str = <<>> \/ amount_str = PARSING_FAILED
    THEN [amount |-> NoMatch, raw_amount |-> amount_str, currency |-> currency,
          locale |-> NoMatch, valid |-> FALSE]
    ELSE LET clean_amount == Strip(Remove(amount_str, "$"))
             german       == currency = <<"E", "U", "R">> \/ language = "de"
             comma_last   == /\ HasChar(clean_amount, ",")
                             /\ \E i \in 1..Len(clean_amount) :
                                   /\ clean_amount[i] = ","
                                   /\ \A j \in i..Len(clean_amount) : clean_amount[j] # "."
             normalized   == IF comma_last
                             THEN ReplaceChar(Remove(clean_amount, "."), ",", ".")
                             ELSE Remove(clean_amount, ",")
             amount_float == float(normalized)
         IN  IF amount_float = NoMatch \/ amount_float[1] <= 0
             THEN [amount |-> NoMatch, raw_amount |-> amount_str, currency |-> currency,
                   locale |-> NoMatch, valid |-> FALSE]
             ELSE [amount |-> amount_float, raw_amount |-> amount_str,
                   currency |-> currency,
                   locale |-> IF german THEN "de_DE" ELSE "en_US", valid |-> TRUE]

\* PatternLibrary.normalize_amount on strings without letters; the two first
\* replace() calls remove the three-character sequences the source spells, not
\* the euro or the pound sign
normalize_amount(amount_str, currency, language) ==
    IF amount_str = <<>> \/ amount_str = PARSING_FAILED
    THEN [amount |-> NoMatch, raw_amount |-> amount_str, currency |-> currency,
          locale |-> NoMatch, valid |-> FALSE]
    ELSE LET clean_amount == Strip(Remove(amount_str, "$"))
             \* rfind(',') > rfind('.'), and the reverse
             has_comma_decimal ==
                 /\ HasChar(clean_amount, ",")
                 /\ \E i \in 1..Len(clean_amount) :
                       /\ clean_amount[i] = ","
                       /\ \A j \in i..Len(clean_amount) : clean_amount[j] # "."
             has_dot_decimal ==
                 /\ HasChar(clean_amount, ".")
                 /\ \E i \in 1..Len(clean_amount) :
                       /\ clean_amount[i] = "."
                       /\ \A j \in i..Len(clean_amount) : clean_amount[j] # ","
             german == currency = <<"E", "U", "R">> \/ language = "de"
             normalized ==
                 IF german
                 THEN IF \/ has_comma_decimal
                         \/ HasChar(clean_amount, ",") /\ ~HasChar(clean_amount, ".")
                      THEN ReplaceChar(Remove(clean_amount, "."), ",", ".")
                      ELSE Remove(clean_amount, ",")
                 ELSE IF \/ has_dot_decimal
                         \/ HasChar(clean_amount, ".") /\ ~HasChar(clean_amount, ",")
                      THEN Remove(clean_amount, ",")
                      ELSE ReplaceChar(clean_amount, ",", ".")
             amount_float == float(normalized)
         IN  IF amount_float = NoMatch \/ amount_float[1] <= 0
             THEN [amount |-> NoMatch, raw_amount |-> amount_str, currency |-> currency,
                   locale |-> NoMatch, valid |-> FALSE]
             ELSE [amount |-> amount_float, raw_amount |-> amount_str,
                   currency |-> currency,
                   locale |-> IF german THEN "de_DE" ELSE "en_US", valid |-> TRUE]

Present(result, k) == Get(result, k, NoMatch) # PARSING_FAILED /\ Truthy(Get(result, k, NoMatch))

\* the critical-field bucket (sender, recipient, amount), added in source order
CriticalScore(result) ==
    LET sender    == Get(result, "sender", PARSING_FAILED)
        recipient == Get(result, "recipient", PARSING_FAILED)
        amount    == Get(result, "amount", PARSING_FAILED)
        s1 == IF sender # PARSING_FAILED /\ Truthy(sender)
              THEN IF HasChar(sender, "@") /\ is_valid_email(sender) THEN F_020
                   ELSE IF Len(sender) > 3 THEN F_015 ELSE F_0
              ELSE F_0
        s2 == IF recipient # PARSING_FAILED /\ Truthy(recipient)
              THEN IF HasChar(recipient, "@") /\ is_valid_email(recipient) THEN F_020
                   ELSE IF Len(recipient) > 3 THEN F_015 ELSE F_0
              ELSE F_0
        s3 == IF amount # PARSING_FAILED /\ Truthy(amount)
                 /\ FloatIsPositive(ReplaceChar(Remove(amount, "."), ",", "."))
              THEN F_010 ELSE F_0
    IN  FAdd(FAdd(FAdd(F_0, s1), s2), s3)

\* the banking bucket before the cap
BankingRaw(result) ==
    LET \* which of the four exclusive banking paths is taken
        path ==
            IF Get(result, "iban", PARSING_FAILED) # PARSING_FAILED /\ Truthy(Get(result, "iban", PARSING_FAILED))
            THEN "iban"
            ELSE IF Present(result, "routing_number") THEN "us"
            ELSE IF Present(result, "sort_code") THEN "uk"
            ELSE IF Present(result, "account_number") THEN "account"
            ELSE "none"
        pm   == Get(result, "payment_method", NoMatch)
        base ==
            IF path = "iban"
            THEN FAdd(FAdd(FAdd(F_0, F_015),
                           IF Get(result, "bic", PARSING_FAILED) # PARSING_FAILED
                              /\ Truthy(Get(result, "bic", PARSING_FAILED))
                           THEN F_010 ELSE F_0),
                      IF pm \in {SEPA, SEPA_INTERNATIONAL} THEN F_005 ELSE F_0)
            ELSE IF path = "us"
            THEN FAdd(FAdd(FAdd(F_0, F_015),
                           IF Present(result, "account_number") THEN F_010 ELSE F_0),
                      IF pm = ACH THEN F_005 ELSE F_0)
            ELSE IF path = "uk"
            THEN FAdd(FAdd(FAdd(F_0, F_015),
                           IF Present(result, "account_number") THEN F_010 ELSE F_0),
                      IF pm = BACS THEN F_005 ELSE F_0)
            ELSE IF path = "account" THEN FAdd(F_0, F_010)
            ELSE F_0
    IN  FAdd(base, IF Present(result, "bank_name") THEN F_005 ELSE F_0)

\* the banking bucket without its cap
BankingScore_uncapped(result) == BankingRaw(result)

BankingScore(result) == FMin(BankingRaw(result), F_030)

RECURSIVE FSum(_, _)
FSum(acc, ws) == IF ws = <<>> THEN acc ELSE FSum(FAdd(acc, Head(ws)), Tail(ws))

\* the supporting bucket before the cap: weights added in source order
SupportingRaw(result) == FSum(F_0, <<
    IF Present(result, "currency") THEN F_003 ELSE F_0,
    IF Present(result, "sender_email") /\ is_valid_email(result["sender_email"]) THEN F_003 ELSE F_0,
    IF Present(result, "recipient_email") /\ is_valid_email(result["recipient_email"]) THEN F_003 ELSE F_0,
    IF Present(result, "sender_address") \/ Present(result, "recipient_address") THEN F_003 ELSE F_0,
    IF Present(result, "invoice_number") THEN <<20971, 545259, 545260>> ELSE F_0,  \* 0.02
    IF Present(result, "invoice_date") THEN F_0015 ELSE F_0,
    IF Present(result, "due_date") THEN F_001 ELSE F_0,
    IF Present(result, "payment_terms") THEN F_0005 ELSE F_0,
    IF Present(result, "tax_amount") THEN F_0015 ELSE F_0,
    IF Present(result, "tax_rate") THEN F_0005 ELSE F_0,
    IF Present(result, "tax_id") THEN F_001 ELSE F_0 >>)
SupportingScore(result) == FMin(SupportingRaw(result), F_020)

calculate_confidence(result) ==
    FMin(FAdd(FAdd(CriticalScore(result), BankingScore(result)), SupportingScore(result)), F_1)

(***************************************************************************)
(* parser_utils.py: banking extraction.  The text is represented by what   *)
(* the library's regular expressions find in it: `m` holds, per pattern,   *)
(* the stripped first capture of re.search (NoMatch when the pattern does  *)
(* not match or captures only whitespace).                                 *)
(***************************************************************************)
\* extract_pattern(text, pattern): the capture the pattern finds in the text
extract_pattern(m, pattern) == m[pattern]
\* extract_pattern applied to the i-th pattern of a pattern list
extract_pattern_at(m, patterns, i) == m[patterns][i]

\* detect_payment_method asking for the routing number before the IBAN
detect_payment_method_routing_first(banking_info) ==
    IF Truthy(Get(banking_info, "routing_number", NoMatch))
       /\ banking_info["routing_number"] # PARSING_FAILED
    THEN ACH
    ELSE IF Truthy(Get(banking_info, "iban", NoMatch)) /\ banking_info["iban"] # PARSING_FAILED
    THEN IF Slice(banking_info["iban"], 0, 2) \in SEPA_COUNTRIES
         THEN SEPA ELSE SEPA_INTERNATIONAL
    ELSE IF Truthy(Get(banking_info, "sort_code", NoMatch))
            /\ banking_info["sort_code"] # PARSING_FAILED
    THEN BACS
    ELSE PARSING_FAILED

\* detect_payment_method taking an account number for a US account
detect_payment_method_by_account(banking_info) ==
    IF Truthy(Get(banking_info, "iban", NoMatch)) /\ banking_info["iban"] # PARSING_FAILED
    THEN IF Slice(banking_info["iban"], 0, 2) \in SEPA_COUNTRIES
         THEN SEPA ELSE SEPA_INTERNATIONAL
    ELSE IF Truthy(Get(banking_info, "account_number", NoMatch))
            /\ banking_info["account_number"] # PARSING_FAILED
    THEN ACH
    ELSE IF Truthy(Get(banking_info, "sort_code", NoMatch))
            /\ banking_info["sort_code"] # PARSING_FAILED
    THEN BACS
    ELSE PARSING_FAILED

detect_payment_method(banking_info) ==
    IF Truthy(Get(banking_info, "iban", NoMatch)) /\ banking_info["iban"] # PARSING_FAILED
    THEN IF Slice(banking_info["iban"], 0, 2) \in SEPA_COUNTRIES
         THEN SEPA ELSE SEPA_INTERNATIONAL
    ELSE IF Truthy(Get(banking_info, "routing_number", NoMatch))
            /\ banking_info["routing_number"] # PARSING_FAILED
    THEN ACH
    ELSE IF Truthy(Get(banking_info, "sort_code", NoMatch))
            /\ banking_info["sort_code"] # PARSING_FAILED
    THEN BACS
    ELSE PARSING_FAILED

\* the loop over US_ACCOUNT_PATTERNS from pattern i on
RECURSIVE UsAccountFrom(_, _)
UsAccountFrom(m, i) ==
    IF i > Len(m["US_ACCOUNT_PATTERNS"]) THEN NoMatch
    ELSE LET account == extract_pattern_at(m, "US_ACCOUNT_PATTERNS", i)
         IN  IF Truthy(account) /\ StrIsDigit(account) /\ 6 <= Len(account) /\ Len(account) <= 17
             THEN account ELSE UsAccountFrom(m, i + 1)

\* the loop over UK_ACCOUNT_PATTERNS from pattern i on
RECURSIVE UkAccountFrom(_, _)
UkAccountFrom(m, i) ==
    IF i > Len(m["UK_ACCOUNT_PATTERNS"]) THEN NoMatch
    ELSE LET account == extract_pattern_at(m, "UK_ACCOUNT_PATTERNS", i)
         IN  IF Truthy(account) /\ StrIsDigit(account) /\ Len(account) = 8
             THEN account ELSE UkAccountFrom(m, i + 1)

\* the loop over ACCOUNT_NUMBER_PATTERNS from pattern i on
RECURSIVE GenericAccountFrom(_, _)
GenericAccountFrom(m, i) ==
    IF i > Len(m["ACCOUNT_NUMBER_PATTERNS"]) THEN NoMatch
    ELSE LET account == extract_pattern_at(m, "ACCOUNT_NUMBER_PATTERNS", i)
             clean   == Remove(Remove(account, " "), "-")
         IN  IF Truthy(account) /\ Len(clean) >= 6 THEN clean
             ELSE GenericAccountFrom(m, i + 1)

\* None is NoMatch
extract_account_number_smart(m, banking_context) ==
    LET us == IF Truthy(Get(banking_context, "routing_number", NoMatch))
              THEN UsAccountFrom(m, 1) ELSE NoMatch
        uk == IF Truthy(Get(banking_context, "sort_code", NoMatch))
              THEN UkAccountFrom(m, 1) ELSE NoMatch
    IN  IF Truthy(us) THEN us
        ELSE IF Truthy(uk) THEN uk
        ELSE GenericAccountFrom(m, 1)

\* BankingIban without the checksum test
BankingIban_unchecked(m) ==
    LET iban == IF ~Truthy(extract_pattern(m, "IBAN_PATTERN_LABELED"))
                THEN extract_pattern(m, "IBAN_PATTERN_UNLABELED")
                ELSE extract_pattern(m, "IBAN_PATTERN_LABELED")
    IN  IF Truthy(iban) THEN Remove(iban, " ") ELSE PARSING_FAILED

\* lines 576-586: the labeled IBAN, else the unlabeled one, kept when its checksum holds
BankingIban(m) ==
    LET iban == IF ~Truthy(extract_pattern(m, "IBAN_PATTERN_LABELED"))
                THEN extract_pattern(m, "IBAN_PATTERN_UNLABELED")
                ELSE extract_pattern(m, "IBAN_PATTERN_LABELED")
    IN  IF Truthy(iban) /\ validate_iban(Remove(iban, " ")) THEN Remove(iban, " ")
        ELSE PARSING_FAILED

\* banking as it stands at line 621, when the account number is looked for
BankingIdentifiers(m) ==
    LET \* lines 588-593: the BIC, else the SWIFT capture, kept when validate_bic accepts it
        bic == IF ~Truthy(extract_pattern(m, "BIC_PATTERN"))
               THEN extract_pattern(m, "SWIFT_PATTERN")
               ELSE extract_pattern(m, "BIC_PATTERN")
        \* lines 595-605: the first routing capture, kept when validate_aba_routing accepts it
        routing == FirstMatch(m["ABA_ROUTING_PATTERNS"])
        \* lines 607-617: the first sort code capture, validated and normalized
        sort_code == FirstMatch(m["SORT_CODE_PATTERNS"])
    IN  [[k \in BankingKeys |-> PARSING_FAILED] EXCEPT
            !["iban"] = BankingIban(m),
            !["bic"] = IF Truthy(bic) /\ validate_bic(bic) THEN bic ELSE PARSING_FAILED,
            !["routing_number"] =
                IF Truthy(routing) /\ validate_aba_routing(routing) THEN routing
                ELSE PARSING_FAILED,
            !["sort_code"] =
                IF Truthy(sort_code) /\ validate_sort_code(sort_code)
                THEN normalize_sort_code(sort_code) ELSE PARSING_FAILED]

extract_banking_info(m) ==
    LET identifiers == BankingIdentifiers(m)
        account     == extract_account_number_smart(m, identifiers)
        banking     ==
            [identifiers EXCEPT
               !["account_number"] = IF Truthy(account) THEN account ELSE @,
               !["bank_name"] = IF m["BANK_NAME_PATTERNS"] # NoMatch
                                THEN Strip(m["BANK_NAME_PATTERNS"]) ELSE @,
               !["payment_address"] = IF Truthy(m["payment_lines"]) THEN m["payment_lines"] ELSE @]
        payment_method == detect_payment_method(banking)
    IN  [banking EXCEPT
           !["payment_method"] = IF payment_method # PARSING_FAILED THEN payment_method ELSE @]

(***************************************************************************)
(* Text of a document.  A character outside ASCII is one element too:      *)
(* "euro", "pound", "sz" (sharp s), "middot", "auml", and the two          *)
(* characters "Abreve" "curren" that pattern_library.py spells in its      *)
(* German labels.                                                          *)
(***************************************************************************)
\* re.sub(r' +', ' ', text)
RECURSIVE CollapseSpaces(_)
CollapseSpaces(s) ==
    IF Len(s) < 2 THEN s
    ELSE IF s[1] = " " /\ s[2] = " " THEN CollapseSpaces(Tail(s))
    ELSE <<s[1]>> \o CollapseSpaces(Tail(s))

\* text.split('\n')
RECURSIVE SplitLines(_, _)
SplitLines(s, cur) ==
    IF s = <<>> THEN <<cur>>
    ELSE IF Head(s) = "\n" THEN <<cur>> \o SplitLines(Tail(s), <<>>)
    ELSE SplitLines(Tail(s), Append(cur, Head(s)))

normalize_text(text) ==
    LET split == SplitLines(CollapseSpaces(ReplaceChar(text, "NUL", " ")), <<>>)
    IN  [i \in 1..Len(split) |-> Strip(split[i])]

\* the first index from q on that holds no whitespace (Len + 1 when there is none)
RECURSIVE SkipSpace(_, _)
SkipSpace(line, q) ==
    IF q > Len(line) \/ ~IsSpaceChar(line[q]) THEN q ELSE SkipSpace(line, q + 1)

\* re.match at pos, ignoring case, of words separated by \s+ (words are in lower case)
RECURSIVE MatchWordsAt(_, _, _)
MatchWordsAt(line, pos, words) ==
    IF words = <<>> THEN TRUE
    ELSE LET w == Head(words)
             q == pos + Len(w)
         IN  /\ q - 1 <= Len(line)
             /\ StrLower(SubSeq(line, pos, q - 1)) = w
             /\ \/ Tail(words) = <<>>
                \/ /\ SkipSpace(line, q) > q
                   /\ MatchWordsAt(line, SkipSpace(line, q), Tail(words))



SENDER_LABELS == <<
    <<<<"f", "r", "o", "m", ":">>>>, <<<<"i", "n", "v", "o", "i", "c", "e">>, <<"f", "r", "o", "m", ":">>>>, <<<<"s", "e", "n", "d", "e", "r", ":">>>>, <<<<"b", "i", "l", "l">>, <<"f", "r", "o", "m", ":">>>>,
    <<<<"b", "i", "l", "l", "e", "d">>, <<"b", "y", ":">>>>, <<<<"i", "s", "s", "u", "e", "d">>, <<"b", "y", ":">>>>, <<<<"p", "r", "o", "v", "i", "d", "e", "r", ":">>>>, <<<<"v", "e", "n", "d", "o", "r", ":">>>>,
    <<<<"s", "u", "p", "p", "l", "i", "e", "r", ":">>>>, <<<<"c", "o", "n", "t", "r", "a", "c", "t", "o", "r", ":">>>>, <<<<"s", "e", "r", "v", "i", "c", "e">>, <<"p", "r", "o", "v", "i", "d", "e", "r", ":">>>>, <<<<"s", "e", "l", "l", "e", "r", ":">>>>,
    <<<<"a", "b", "s", "e", "n", "d", "e", "r", ":">>>>, <<<<"v", "o", "n", ":">>>>, <<<<"r", "e", "c", "h", "n", "u", "n", "g", "s", "s", "t", "e", "l", "l", "e", "r", ":">>>>, <<<<"l", "i", "e", "f", "e", "r", "a", "n", "t", ":">>>>,
    <<<<"a", "n", "b", "i", "e", "t", "e", "r", ":">>>>, <<<<"v", "e", "r", "k", "Abreve", "curren", "u", "f", "e", "r", ":">>>> >>

RECIPIENT_LABELS == <<
    <<<<"t", "o", ":">>>>, <<<<"b", "i", "l", "l">>, <<"t", "o", ":">>>>, <<<<"r", "e", "c", "i", "p", "i", "e", "n", "t", ":">>>>, <<<<"i", "n", "v", "o", "i", "c", "e">>, <<"t", "o", ":">>>>,
    <<<<"c", "u", "s", "t", "o", "m", "e", "r", ":">>>>, <<<<"b", "i", "l", "l", "e", "d">>, <<"t", "o", ":">>>>, <<<<"c", "l", "i", "e", "n", "t", ":">>>>, <<<<"p", "u", "r", "c", "h", "a", "s", "e", "r", ":">>>>,
    <<<<"b", "u", "y", "e", "r", ":">>>>, <<<<"a", "t", "t", "e", "n", "t", "i", "o", "n", ":">>>>, <<<<"a", "t", "t", "n", ":">>>>, <<<<"f", "o", "r", ":">>>>,
    <<<<"r", "e", "c", "h", "n", "u", "n", "g", "s", "e", "m", "p", "f", "Abreve", "curren", "n", "g", "e", "r", ":">>>>, <<<<"a", "n", ":">>>>, <<<<"e", "m", "p", "f", "Abreve", "curren", "n", "g", "e", "r", ":">>>>,
    <<<<"k", "u", "n", "d", "e", ":">>>>, <<<<"k", "Abreve", "curren", "u", "f", "e", "r", ":">>>>, <<<<"a", "u", "f", "t", "r", "a", "g", "g", "e", "b", "e", "r", ":">>>> >>

\* the line index find_label_in_lines returns is >= 0
find_label_in_lines(lines, patterns) ==
    \* re.search(r'^\s*w1\s+w2...:\s*(.*)', line, re.IGNORECASE)
    \E i \in 1..Len(lines) : \E p \in 1..Len(patterns) :
        MatchWordsAt(lines[i], SkipSpace(lines[i], 1), patterns[p])

(***************************************************************************)
(* parsing_strategies.py: which strategy accepts a text                    *)
(***************************************************************************)
TwoColumn         == "TwoColumnStrategy"
SingleColumnLabel == "SingleColumnLabelStrategy"
CompanySpecific   == "CompanySpecificStrategy"
PatternFallback   == "PatternFallbackStrategy"

TwoColumn_can_handle(text, lines) ==
    \* re.search(r'bill\s+to', line, re.IGNORECASE)
    \E i \in 1..Len(lines) : \E pos \in 1..Len(lines[i]) :
        MatchWordsAt(lines[i], pos, <<<<"b", "i", "l", "l">>, <<"t", "o">>>>)

german_indicators == <<<<"G", "m", "b", "H">>, <<"A", "G">>, <<"s", "t", "r", "a", "sz", "e">>, <<"middot">>>>

CompanySpecific_can_handle(text, lines) ==
    \/ Contains(text, <<"D", "e", "u", "t", "s", "c", "h", "e", " ", "B", "a", "h", "n">>)
    \/ Cardinality({i \in 1..Len(german_indicators) : Contains(text, german_indicators[i])}) >= 2

SingleColumnLabel_can_handle(text, lines) ==
    \/ find_label_in_lines(lines, SENDER_LABELS)
    \/ find_label_in_lines(lines, RECIPIENT_LABELS)

PatternFallback_can_handle(text, lines) ==
    LET has_column_structure ==
            \/ Contains(text, <<"F", "r", "o", "m", ":">>) \/ Contains(text, <<"T", "o", ":">>)
            \/ Contains(text, <<"B", "i", "l", "l", " ", "f", "r", "o", "m", ":">>) \/ Contains(text, <<"B", "i", "l", "l", " ", "t", "o", ":">>)
        has_label_structure ==
            \/ Contains(text, <<"S", "e", "n", "d", "e", "r", ":">>) \/ Contains(text, <<"R", "e", "c", "i", "p", "i", "e", "n", "t", ":">>)
            \/ Contains(text, <<"A", "b", "s", "e", "n", "d", "e", "r", ":">>) \/ Contains(text, <<"E", "m", "p", "f", "auml", "n", "g", "e", "r", ":">>)
        has_company_specific ==
            \/ Contains(text, <<"D", "e", "u", "t", "s", "c", "h", "e", " ", "B", "a", "h", "n">>) \/ Contains(text, <<"D", "B", " ", "V", "e", "r", "t", "r", "i", "e", "b">>)
    IN  ~(has_column_structure \/ has_label_structure \/ has_company_specific)

can_handle(strategy, text, lines) ==
    CASE strategy = TwoColumn         -> TwoColumn_can_handle(text, lines)
      [] strategy = SingleColumnLabel -> SingleColumnLabel_can_handle(text, lines)
      [] strategy = CompanySpecific   -> CompanySpecific_can_handle(text, lines)
      [] strategy = PatternFallback   -> PatternFallback_can_handle(text, lines)

(***************************************************************************)
(* parser_utils.py: the extraction helpers.  `finds` holds what the shared *)
(* patterns find in the text.                                              *)
(***************************************************************************)
\* extract_amount: the first AMOUNT_PATTERNS capture without currency signs
extract_amount(finds) ==
    IF finds["AMOUNT_PATTERNS"] = NoMatch THEN NoMatch
    ELSE Strip(Remove(Remove(Remove(finds["AMOUNT_PATTERNS"], "euro"), "$"), "pound"))

\* finds[k] is the first capture for field k that passes the field's shape check
extract_invoice_metadata(finds) ==
    [k \in MetadataKeys |-> IF Truthy(finds[k]) THEN finds[k] ELSE PARSING_FAILED]

extract_tax_info(finds) ==
    [k \in TaxKeys |-> IF Truthy(finds[k]) THEN finds[k] ELSE PARSING_FAILED]

(***************************************************************************)
(* parsers/extraction_utils.py, from which the strategies import their     *)
(* helpers, is not among the sources.  The specification describes these   *)
(* helpers as the functions of the same names in parser_utils.py, and so   *)
(* they are taken here.                                                    *)
(***************************************************************************)
extraction_utils_create_default_result == create_default_result
extraction_utils_extract_amount(finds) == extract_amount(finds)
extraction_utils_extract_banking_info(finds) == extract_banking_info(finds)
extraction_utils_extract_invoice_metadata(finds) == extract_invoice_metadata(finds)
extraction_utils_extract_tax_info(finds) == extract_tax_info(finds)

(***************************************************************************)
(* parsing_strategies.py: parse.  `party` holds what the strategy's own    *)
(* layout heuristics find for sender, recipient, addresses and emails.     *)
(***************************************************************************)
\* the if/elif chain on currency signs and codes in the text
DetectCurrency(strategy, text) ==
    IF Contains(text, <<"euro">>) \/ Contains(text, <<"E", "U", "R">>) THEN <<"E", "U", "R">>
    ELSE IF Contains(text, <<"$">>) \/ Contains(text, <<"U", "S", "D">>) THEN <<"U", "S", "D">>
    ELSE IF /\ strategy \in {SingleColumnLabel, PatternFallback}
            /\ (Contains(text, <<"pound">>) \/ Contains(text, <<"G", "B", "P">>)) THEN <<"G", "B", "P">>
    ELSE PARSING_FAILED

parse(strategy, text, finds, party) ==
    LET r0 == extraction_utils_create_default_result
        \* the party fields the strategy's parse has an assignment for
        party_fields ==
            CASE strategy = TwoColumn         -> PartyKeys
              [] strategy = SingleColumnLabel -> PartyKeys
              [] strategy = CompanySpecific   -> {"sender", "sender_address", "recipient"}
              [] strategy = PatternFallback   -> {"sender_email", "recipient_email"}
        r1 == [k \in DOMAIN r0 |->
                 IF k \in party_fields /\ Truthy(party[k]) THEN party[k] ELSE r0[k]]
        amount == extraction_utils_extract_amount(finds)
        r2 == IF Truthy(amount) THEN [r1 EXCEPT !["amount"] = amount] ELSE r1
        r3 == [r2 EXCEPT !["currency"] = DetectCurrency(strategy, text)]
        r4 == Update(r3, extraction_utils_extract_banking_info(finds))
        r5 == Update(r4, extraction_utils_extract_invoice_metadata(finds))
    IN  Update(r5, extraction_utils_extract_tax_info(finds))

(***************************************************************************)
(* ml/ner_extractor.py and ml/layout_classifier.py                         *)
(***************************************************************************)
NerKeys == {"sender", "recipient", "amount", "currency", "sender_address",
            "recipient_address", "sender_email", "recipient_email",
            "iban", "bic", "bank_name", "payment_address"}

_empty_result == [k \in NerKeys |-> PARSING_FAILED]

_extract_currency(money_str) ==
    IF ~Truthy(money_str) THEN PARSING_FAILED
    ELSE IF Contains(money_str, <<"$">>) \/ Contains(money_str, <<"U", "S", "D">>) THEN <<"U", "S", "D">>
    ELSE IF Contains(money_str, <<"euro">>) \/ Contains(money_str, <<"E", "U", "R">>) THEN <<"E", "U", "R">>
    ELSE IF Contains(money_str, <<"pound">>) \/ Contains(money_str, <<"G", "B", "P">>) THEN <<"G", "B", "P">>
    ELSE IF Contains(money_str, <<"C", "H", "F">>) THEN <<"C", "H", "F">>
    ELSE PARSING_FAILED

\* ents: the entity texts the spaCy pipeline labels ORG, MONEY, GPE and PERSON
ner_extract(ents) ==
    LET organizations == ents.ORG
        money_amounts == ents.MONEY
        locations     == ents.GPE
        persons       == ents.PERSON
    IN  [_empty_result EXCEPT
           !["sender"] = IF Len(organizations) > 0 THEN organizations[1] ELSE PARSING_FAILED,
           !["recipient"] = IF Len(organizations) > 1 THEN organizations[2]
                            ELSE IF persons # <<>> THEN persons[1] ELSE PARSING_FAILED,
           !["amount"] = IF money_amounts # <<>> THEN money_amounts[1] ELSE PARSING_FAILED,
           !["currency"] = IF money_amounts # <<>> THEN _extract_currency(money_amounts[1])
                           ELSE PARSING_FAILED,
           !["sender_address"] = IF locations # <<>> THEN locations[1] ELSE PARSING_FAILED,
           !["recipient_address"] = IF Len(locations) > 1 THEN locations[2] ELSE PARSING_FAILED]


get_confidence(result) ==
    LET extracted == Cardinality({k \in DOMAIN result : result[k] # PARSING_FAILED})
        critical_extracted ==
            Cardinality({k \in {"sender", "recipient", "amount"} :
                            Get(result, k, NoMatch) # PARSING_FAILED})
        \* the doubles critical_extracted / 3.0 * 0.7, for 0..3 critical fields
        critical_term == <<<<0, 0, 0>>, <<244667, 768955, 768928>>, <<489335, 489335, 489280>>, <<734003, 209715, 209664>>>>
        \* the doubles extracted / total_fields * 0.3, for 0..12 of the 12 fields
        total_term == <<<<0, 0, 0>>, <<26214, 419430, 419428>>, <<52428, 838860, 838856>>,
            <<78643, 209715, 209712>>, <<104857, 629145, 629136>>, <<131072, 0, 0>>,
            <<157286, 419430, 419424>>, <<183500, 838860, 838880>>, <<209715, 209715, 209696>>,
            <<235929, 629145, 629120>>, <<262144, 0, 0>>, <<288358, 419430, 419392>>,
            <<314572, 838860, 838848>>>>
    IN  FMin(FAdd(critical_term[critical_extracted + 1], total_term[extracted + 1]), F_1)

DefaultOrder == <<TwoColumn, SingleColumnLabel, CompanySpecific, PatternFallback>>

get_strategy_order(layout_type) ==
    CASE layout_type = "two_column" -> DefaultOrder
      [] layout_type = "single_column" ->
            <<SingleColumnLabel, TwoColumn, CompanySpecific, PatternFallback>>
      [] layout_type = "company_specific" ->
            <<CompanySpecific, SingleColumnLabel, TwoColumn, PatternFallback>>
      [] OTHER -> <<PatternFallback, SingleColumnLabel, TwoColumn, CompanySpecific>>

(***************************************************************************)
(* pdf_parser.py: merge_results.  config is the object get_config returns: *)
(* `ml` is the section pdf_parser.py reads from it, absent from the Config *)
(* class of core/config.py.                                                *)
(***************************************************************************)
\* merge_results building the merged record from the keys of the ML record
merge_results_over_ml_keys(config, regex_result, ml_result, regex_confidence, ml_confidence) ==
    IF FLess(ml_confidence, config.ml.ensemble.ml_min_confidence) THEN regex_result
    ELSE [field \in DOMAIN ml_result |->
            LET regex_value == Get(regex_result, field, PARSING_FAILED)
                ml_value    == ml_result[field]
            IN  IF regex_value = PARSING_FAILED /\ ml_value # PARSING_FAILED THEN ml_value
                ELSE regex_value]

\* merge_results letting the ML value win on equal confidences
merge_results_on_tie(config, regex_result, ml_result, regex_confidence, ml_confidence) ==
    IF FLess(ml_confidence, config.ml.ensemble.ml_min_confidence) THEN regex_result
    ELSE [field \in DOMAIN regex_result |->
            LET regex_value == regex_result[field]
                ml_value    == Get(ml_result, field, PARSING_FAILED)
            IN  IF regex_value = PARSING_FAILED /\ ml_value # PARSING_FAILED THEN ml_value
                ELSE IF /\ ~config.ml.ensemble.prefer_regex
                        /\ regex_value # PARSING_FAILED
                        /\ ml_value # PARSING_FAILED
                        /\ FLeq(regex_confidence, ml_confidence)
                THEN ml_value
                ELSE regex_value]

\* merge_results taking the ML value of a field the rules missed only when the
\* rule-based values are not preferred
merge_results_no_fallback_when_preferred(config, regex_result, ml_result, regex_confidence, ml_confidence) ==
    IF FLess(ml_confidence, config.ml.ensemble.ml_min_confidence) THEN regex_result
    ELSE [field \in DOMAIN regex_result |->
            LET regex_value == regex_result[field]
                ml_value    == Get(ml_result, field, PARSING_FAILED)
            IN  IF /\ ~config.ml.ensemble.prefer_regex
                   /\ ml_value # PARSING_FAILED
                   /\ regex_value = PARSING_FAILED \/ FLess(regex_confidence, ml_confidence)
                THEN ml_value
                ELSE regex_value]

merge_results(config, regex_result, ml_result, regex_confidence, ml_confidence) ==
    IF FLess(ml_confidence, config.ml.ensemble.ml_min_confidence) THEN regex_result
    ELSE [field \in DOMAIN regex_result |->
            LET regex_value == regex_result[field]
                ml_value    == Get(ml_result, field, PARSING_FAILED)
            IN  IF regex_value = PARSING_FAILED /\ ml_value # PARSING_FAILED THEN ml_value
                ELSE IF /\ ~config.ml.ensemble.prefer_regex
                        /\ regex_value # PARSING_FAILED
                        /\ ml_value # PARSING_FAILED
                        /\ FLess(regex_confidence, ml_confidence)
                THEN ml_value
                ELSE regex_value]

(***************************************************************************)
(* Inputs: the documents, pattern finds, layout finds, entity finds and    *)
(* configurations the operations are applied to                            *)
(***************************************************************************)
\* most lines of a page
MaxLines == 1

\* the lines pages are made of
LineVocab == <<
    <<"A", "c", "m", "e", " ", "I", "n", "c", " ", "B", "i", "l", "l", " ", "t", "o">>,
    <<"F", "r", "o", "m", ":", " ", "A", "c", "m", "e">>,
    <<"B", "i", "l", "l", " ", "t", "o", ":", " ", "B", "o", "b", " ", "G", "m", "b", "H", " ", "A", "G">>,
    <<"D", "e", "u", "t", "s", "c", "h", "e", " ", "B", "a", "h", "n", " ", "A", "G">>,
    <<"D", "B", " ", "V", "e", "r", "t", "r", "i", "e", "b">>,
    <<"T", "o", "t", "a", "l", " ", "1", "0", "0", " ", "E", "U", "R">> >>

\* the lines of LineVocab at the positions in S, in order
RECURSIVE PickLines(_, _)
PickLines(S, i) ==
    IF i > Len(LineVocab) THEN <<>>
    ELSE (IF i \in S THEN <<LineVocab[i]>> ELSE <<>>) \o PickLines(S, i + 1)

\* '\n'.join(page_lines)
RECURSIVE JoinLines(_)
JoinLines(page_lines) ==
    IF page_lines = <<>> THEN <<>>
    ELSE IF Len(page_lines) = 1 THEN Head(page_lines)
    ELSE Head(page_lines) \o <<"\n">> \o JoinLines(Tail(page_lines))

\* a text in which no pattern finds anything
NoFinds ==
    [k \in {"IBAN_PATTERN_LABELED", "IBAN_PATTERN_UNLABELED", "BIC_PATTERN", "SWIFT_PATTERN",
            "ABA_ROUTING_PATTERNS", "SORT_CODE_PATTERNS", "US_ACCOUNT_PATTERNS",
            "UK_ACCOUNT_PATTERNS", "ACCOUNT_NUMBER_PATTERNS", "BANK_NAME_PATTERNS",
            "payment_lines", "AMOUNT_PATTERNS"} \cup MetadataKeys \cup TaxKeys |->
        CASE k \in {"ABA_ROUTING_PATTERNS", "ACCOUNT_NUMBER_PATTERNS"} -> <<NoMatch, NoMatch, NoMatch>>
          [] k \in {"SORT_CODE_PATTERNS", "US_ACCOUNT_PATTERNS", "UK_ACCOUNT_PATTERNS"} -> <<NoMatch, NoMatch>>
          [] OTHER -> NoMatch]

\* a German invoice: labeled IBAN, BIC, bank, amount, metadata and tax block
SepaFinds ==
    [NoFinds EXCEPT
        !["IBAN_PATTERN_LABELED"] = <<"D", "E", "8", "9", " ", "3", "7", "0", "4", " ", "0", "0", "4", "4", " ", "0", "5", "3", "2", " ", "0", "1", "3", "0", " ", "0", "0">>,
        !["BIC_PATTERN"] = <<"D", "E", "U", "T", "D", "E", "F", "F">>,
        !["BANK_NAME_PATTERNS"] = <<"D", "e", "u", "t", "s", "c", "h", "e", " ", "B", "a", "n", "k", " ">>,
        !["AMOUNT_PATTERNS"] = <<"euro", " ", "1", ",", "2", "5", "0", ".", "0", "0">>,
        !["invoice_number"] = <<"I", "N", "V", "-", "1">>, !["invoice_date"] = <<"2", "0", "2", "4", "-", "0", "1", "-", "0", "1">>,
        !["due_date"] = <<"2", "0", "2", "4", "-", "0", "2", "-", "0", "1">>, !["payment_terms"] = <<"N", "e", "t", " ", "3", "0">>,
        !["tax_amount"] = <<"1", "9", ".", "0", "0">>, !["tax_rate"] = <<"1", "9", "%">>, !["tax_id"] = <<"D", "E", "1", "2", "3", "4", "5", "6", "7", "8", "9">>]

\* a US invoice whose IBAN-shaped string fails the checksum
UsFinds ==
    [NoFinds EXCEPT
        !["IBAN_PATTERN_UNLABELED"] = <<"D", "E", "8", "9", "3", "7", "0", "4", "0", "0", "4", "4", "0", "5", "3", "2", "0", "1", "3", "0", "0", "1">>,
        !["ABA_ROUTING_PATTERNS"] = <<NoMatch, <<"1", "2", "1", "0", "0", "0", "2", "4", "8">>, NoMatch>>,
        !["US_ACCOUNT_PATTERNS"] = <<<<"1", "2", "3", "4", "5", "6", "7", "8", "9">>, NoMatch>>,
        !["AMOUNT_PATTERNS"] = <<"1", "0", "0", ".", "0", "0">>]


\* what a strategy's layout heuristics find for the parties
NoParty == [k \in PartyKeys |-> NoMatch]
NamedParty == [NoParty EXCEPT !["sender"] = <<"A", "c", "m", "e", " ", "I", "n", "c">>, !["recipient"] = <<"B", "o", "b", " ", "R", "a", "y">>]
FullParty ==
    [NoParty EXCEPT
        !["sender"] = <<"b", "i", "l", "l", "i", "n", "g", "@", "a", "c", "m", "e", ".", "c", "o", "m">>, !["recipient"] = <<"b", "o", "b", "@", "e", "x", ".", "o", "r", "g">>,
        !["sender_email"] = <<"b", "i", "l", "l", "i", "n", "g", "@", "a", "c", "m", "e", ".", "c", "o", "m">>, !["recipient_email"] = <<"b", "o", "b", "@", "e", "x", ".", "o", "r", "g">>,
        !["sender_address"] = <<"1", " ", "M", "a", "i", "n", " ", "S", "t">>, !["recipient_address"] = <<"2", " ", "O", "a", "k", " ", "A", "v", "e">>]

\* what the spaCy pipeline labels in a text
NoEnts == [ORG |-> <<>>, MONEY |-> <<>>, GPE |-> <<>>, PERSON |-> <<>>]
\* the pdf files parse_invoice is called on, each with what the patterns, the
\* layout heuristics and the spaCy pipeline find in its text
PdfFiles ==
    {[kind |-> k, pages |-> <<>>, finds |-> NoFinds, party |-> NoParty, ents |-> NoEnts] :
        k \in {"missing", "corrupted", "error", "ok"}}
    \cup {[kind |-> "ok", pages |-> <<JoinLines(ls)>>, finds |-> NoFinds,
           party |-> NoParty, ents |-> NoEnts] : ls \in {<<>>}}
    \cup {[kind |-> "ok", pages |-> <<JoinLines(ls)>>, finds |-> f, party |-> p, ents |-> e] :
            ls \in {PickLines(S, 1) :
                        S \in {T \in SUBSET (1..Len(LineVocab)) : Cardinality(T) <= MaxLines}}
                   \ {<<>>}, f \in {NoFinds, SepaFinds, UsFinds},
            p \in {NoParty, NamedParty, FullParty}, e \in
                {NoEnts,
                 [ORG |-> <<<<"A", "c", "m", "e", " ", "I", "n", "c">>>>, MONEY |-> <<<<"$", "1", "0", "0", ".", "0", "0">>>>,
                  GPE |-> <<<<"B", "e", "r", "l", "i", "n">>, <<"P", "a", "r", "i", "s">>>>, PERSON |-> <<<<"B", "o", "b", " ", "R", "a", "y">>>>]}}

\* Config as core/config.py declares it: no ml section
Config == [parser |-> [confidence_threshold |-> F_090]]

(***************************************************************************)
(* State                                                                   *)
(***************************************************************************)
None == <<>>

VARIABLES
    config,             \* the object get_config() returns (core/config.py _config)
    _ml_extractor,      \* pdf_parser._ml_extractor: "None" or "SpacyNERExtractor"
    _layout_classifier, \* pdf_parser._layout_classifier: "None" or "LayoutClassifier"
    pc,                 \* where the running call stands; "idle" when none was made
    pdf,                \* parse_invoice: the file behind pdf_path
    text,               \* parse_invoice: text
    lines,              \* parse_invoice: lines
    strategy_names,     \* parse_invoice: strategy_names
    idx,                \* parse_invoice: position of the strategy loop in strategy_names
    best_result,        \* parse_invoice: best_result
    best_confidence,    \* parse_invoice: best_confidence
    best_strategy,      \* parse_invoice: best_strategy
    result,             \* parse_invoice: result, the record returned at "done"
    log,                \* the calls made on strategies, in order
    layout_status,      \* how the strategy order was determined
    ml_status,          \* what the ensemble block did
    arg,                \* argument of a call of a library function
    out,                \* value that call returned
    pending_folder,     \* FileManager.pending_folder: the entries of the folder, by name
    processed_folder,   \* FileManager.processed_folder: the entries of the folder, by name
    known_files,        \* FileManager.known_files
    excel_path,         \* VehicleMatcher.excel_path: the workbook behind the path
    threshold,          \* VehicleMatcher.threshold, None before the matcher is made
    vehicles,           \* VehicleMatcher.vehicles: None (not loaded) or the dict's items
    enabled,            \* VehicleMatcher.enabled
    scan_thread,        \* gui/main.py scan_thread: where background_scan_loop stands
                        \* in scan_folder, with scan_folder's all_pdfs and new_files
    tree                \* gui/main.py tree: the filenames loaded into the table

vars == <<config, _ml_extractor, _layout_classifier, pc, pdf, text, lines, strategy_names,
          idx, best_result, best_confidence, best_strategy, result, log, layout_status,
          ml_status, arg, out, pending_folder, processed_folder, known_files,
          excel_path, threshold, vehicles, enabled, scan_thread, tree>>

Init ==
    /\ config \in
            {Config} \cup
            {[ml |-> [enabled |-> e[1],
                      layout |-> [enabled |-> e[2], optimize_strategy_order |-> e[3]],
                      ensemble |-> [enabled |-> e[4], prefer_regex |-> e[5],
                                    ml_min_confidence |-> F_050]]] @@ Config : e \in {
                <<FALSE, TRUE, TRUE, TRUE, TRUE>>,
                <<TRUE, FALSE, TRUE, FALSE, TRUE>>,
                <<TRUE, TRUE, TRUE, FALSE, TRUE>>,
                <<TRUE, FALSE, FALSE, TRUE, TRUE>>,
                <<TRUE, FALSE, FALSE, TRUE, FALSE>>}}
    /\ _ml_extractor = "None" /\ _layout_classifier = "None"
    /\ pc = "idle"
    /\ pdf = None /\ text = <<>> /\ lines = <<>> /\ strategy_names = <<>>
    /\ idx = 0 /\ best_result = None /\ best_confidence = F_0 /\ best_strategy = "None"
    /\ result = None /\ log = <<>> /\ layout_status = "none" /\ ml_status = "none"
    /\ arg = None /\ out = None
    /\ pending_folder = [exists |-> TRUE, entries |-> <<>>]
    /\ processed_folder = [exists |-> TRUE, entries |-> <<>>]
    /\ known_files = {}
    /\ scan_thread = [pc |-> "sleep", all_pdfs |-> {}, new_files |-> <<>>]
    /\ tree = {}
    /\ excel_path = [exists |-> FALSE, valid |-> FALSE, rows |-> <<>>]
    /\ threshold = None
    /\ vehicles = [loaded |-> FALSE, items |-> <<>>]
    /\ enabled = FALSE

(***************************************************************************)
(* pdf_parser.py, lines 25-58: the lazily initialised collaborators.  The  *)
(* value of a global is "None" or the instance it holds, named by its      *)
(* class; a getter is the set of values its global may hold when it        *)
(* returns, which is also what it returns.  Construction may fail (the     *)
(* import, the model file), and fails where the configuration has no ml    *)
(* section to read the model from.                                         *)
(***************************************************************************)
\* get_ml_extractor constructing an extractor on every call
get_ml_extractor_every_call ==
    IF "ml" \in DOMAIN config THEN {"another SpacyNERExtractor", "None"} ELSE {"None"}

get_ml_extractor ==
    IF _ml_extractor # "None" THEN {_ml_extractor}
    ELSE IF "ml" \in DOMAIN config THEN {"SpacyNERExtractor", "None"}
    ELSE {"None"}

get_layout_classifier ==
    IF _layout_classifier # "None" THEN {_layout_classifier}
    ELSE IF "ml" \in DOMAIN config THEN {"LayoutClassifier", "None"}
    ELSE {"None"}

(***************************************************************************)
(* parse_invoice, lines 124-156: read the file                             *)
(***************************************************************************)
\* text += page_text + "\n" for every page with text
RECURSIVE AccumulateText(_)
AccumulateText(pages) ==
    IF pages = <<>> THEN <<>>
    ELSE (IF Truthy(Head(pages)) THEN Head(pages) \o <<"\n">> ELSE <<>>)
         \o AccumulateText(Tail(pages))

\* the exception the file raises before any strategy is tried, or "None"
SourceError(p) ==
    IF p.kind = "missing" THEN "FileNotFoundError"
    ELSE IF p.kind = "corrupted" THEN "PDFCorruptedError"
    ELSE IF p.kind = "error" THEN "Exception"
    ELSE IF Len(p.pages) = 0 THEN "PDFParsingError"
    ELSE IF Strip(AccumulateText(p.pages)) = <<>> THEN "PDFParsingError"
    ELSE "None"

ExtractText ==
    /\ pc = "idle"
    /\ \E p \in PdfFiles :
         /\ pdf' = p
         /\ result' = create_default_result
         /\ IF SourceError(p) # "None"
            THEN /\ pc' = "done"
                 /\ text' = <<>> /\ lines' = <<>>
            ELSE /\ pc' = "order"
                 /\ text' = AccumulateText(p.pages)
                 /\ lines' = normalize_text(text')
         /\ strategy_names' = <<>> /\ idx' = 0
         /\ best_result' = None /\ best_confidence' = F_0 /\ best_strategy' = "None"
         /\ log' = <<>> /\ layout_status' = "none" /\ ml_status' = "none"
         /\ arg' = None /\ out' = None
         /\ UNCHANGED <<config, _ml_extractor, _layout_classifier>>
    /\ UNCHANGED <<scan_thread, tree, pending_folder, processed_folder, known_files,
                   excel_path, threshold, vehicles, enabled>>

(***************************************************************************)
(* parse_invoice, lines 168-196: the trial order                           *)
(***************************************************************************)
DetermineOrder ==
    /\ pc = "order"
    /\ IF "ml" \notin DOMAIN config
       THEN \* config.ml raises AttributeError, caught at line 267
            /\ pc' = "done"
            /\ layout_status' = "AttributeError"
            /\ UNCHANGED <<_layout_classifier, strategy_names, idx>>
       ELSE /\ pc' = "loop"
            /\ idx' = 1
            \* c: the global after get_layout_classifier(); construction may fail
            /\ IF /\ config.ml.enabled /\ config.ml.layout.enabled
                  /\ config.ml.layout.optimize_strategy_order
               THEN \E c \in get_layout_classifier :
                      /\ _layout_classifier' = c
                      /\ IF c = "None"
                         THEN /\ strategy_names' = DefaultOrder
                              /\ layout_status' = "unavailable"
                         ELSE \/ \E layout_type \in {"two_column", "single_column",
                                                     "company_specific", "unstructured"} :
                                   /\ strategy_names' = get_strategy_order(layout_type)
                                   /\ layout_status' = "predicted"
                              \/ /\ strategy_names' = DefaultOrder
                                 /\ layout_status' = "raised"
               ELSE /\ strategy_names' = DefaultOrder
                    /\ layout_status' = "disabled"
                    /\ UNCHANGED _layout_classifier
    /\ UNCHANGED <<config, _ml_extractor, pdf, text, lines, best_result, best_confidence,
                   best_strategy, result, log, ml_status, arg, out>>
    /\ UNCHANGED <<scan_thread, tree, pending_folder, processed_folder, known_files,
                   excel_path, threshold, vehicles, enabled>>

(***************************************************************************)
(* parse_invoice, lines 198-218: one pass of the strategy loop             *)
(***************************************************************************)
LogEntry(op, strategy, handled, confidence) ==
    [op |-> op, strategy |-> strategy, handled |-> handled, confidence |-> confidence]

\* AfterPass without the break at 0.9
AfterPass_no_break(confidence) ==
    IF idx = Len(strategy_names)
    THEN pc' = "ensemble" /\ idx' = idx
    ELSE pc' = "loop" /\ idx' = idx + 1

\* a loop that stops after one pass once an earlier call has loaded the classifier
AfterPass_once_loaded(confidence) ==
    IF _layout_classifier # "None" \/ idx = Len(strategy_names)
    THEN pc' = "ensemble" /\ idx' = idx
    ELSE pc' = "loop" /\ idx' = idx + 1

\* the loop leaves for the ensemble block after a break or the last strategy
AfterPass(confidence) ==
    IF FLeq(F_090, confidence) \/ idx = Len(strategy_names)
    THEN pc' = "ensemble" /\ idx' = idx
    ELSE pc' = "loop" /\ idx' = idx + 1

\* a pass in which a result that only equals the best confidence replaces it
TryStrategy_last_of_equals ==
    /\ pc = "loop"
    /\ LET strategy == strategy_names[idx]
       IN  IF can_handle(strategy, text, lines)
           THEN LET strategy_result == parse(strategy, text, pdf.finds, pdf.party)
                    confidence      == calculate_confidence(strategy_result)
                IN  /\ log' = log \o <<LogEntry("can_handle", strategy, TRUE, F_0),
                                       LogEntry("parse", strategy, TRUE, confidence)>>
                    /\ IF FLeq(best_confidence, confidence) /\ FLess(F_0, confidence)
                       THEN /\ best_result' = strategy_result
                            /\ best_confidence' = confidence
                            /\ best_strategy' = strategy
                       ELSE UNCHANGED <<best_result, best_confidence, best_strategy>>
                    /\ AfterPass(confidence)
           ELSE /\ log' = Append(log, LogEntry("can_handle", strategy, FALSE, F_0))
                /\ UNCHANGED <<best_result, best_confidence, best_strategy>>
                /\ AfterPass(F_0)
    /\ UNCHANGED <<config, _ml_extractor, _layout_classifier, pdf, text, lines,
                   strategy_names, result, layout_status, ml_status, arg, out>>
    /\ UNCHANGED <<scan_thread, tree, pending_folder, processed_folder, known_files,
                   excel_path, threshold, vehicles, enabled>>

\* a pass that keeps the first record found and never replaces it
TryStrategy_first_kept ==
    /\ pc = "loop"
    /\ LET strategy == strategy_names[idx]
       IN  IF can_handle(strategy, text, lines)
           THEN LET strategy_result == parse(strategy, text, pdf.finds, pdf.party)
                    confidence      == calculate_confidence(strategy_result)
                IN  /\ log' = log \o <<LogEntry("can_handle", strategy, TRUE, F_0),
                                       LogEntry("parse", strategy, TRUE, confidence)>>
                    /\ IF FLess(best_confidence, confidence) /\ best_result = None
                       THEN /\ best_result' = strategy_result
                            /\ best_confidence' = confidence
                            /\ best_strategy' = strategy
                       ELSE UNCHANGED <<best_result, best_confidence, best_strategy>>
                    /\ AfterPass(confidence)
           ELSE /\ log' = Append(log, LogEntry("can_handle", strategy, FALSE, F_0))
                /\ UNCHANGED <<best_result, best_confidence, best_strategy>>
                /\ AfterPass(F_0)
    /\ UNCHANGED <<config, _ml_extractor, _layout_classifier, pdf, text, lines,
                   strategy_names, result, layout_status, ml_status, arg, out>>
    /\ UNCHANGED <<scan_thread, tree, pending_folder, processed_folder, known_files,
                   excel_path, threshold, vehicles, enabled>>

TryStrategy ==
    /\ pc = "loop"
    /\ LET strategy == strategy_names[idx]
       IN  IF can_handle(strategy, text, lines)
           THEN LET strategy_result == parse(strategy, text, pdf.finds, pdf.party)
                    confidence      == calculate_confidence(strategy_result)
                IN  /\ log' = log \o <<LogEntry("can_handle", strategy, TRUE, F_0),
                                       LogEntry("parse", strategy, TRUE, confidence)>>
                    /\ IF FLess(best_confidence, confidence)
                       THEN /\ best_result' = strategy_result
                            /\ best_confidence' = confidence
                            /\ best_strategy' = strategy
                       ELSE UNCHANGED <<best_result, best_confidence, best_strategy>>
                    /\ AfterPass(confidence)
           ELSE /\ log' = Append(log, LogEntry("can_handle", strategy, FALSE, F_0))
                /\ UNCHANGED <<best_result, best_confidence, best_strategy>>
                /\ AfterPass(F_0)
    /\ UNCHANGED <<config, _ml_extractor, _layout_classifier, pdf, text, lines,
                   strategy_names, result, layout_status, ml_status, arg, out>>
    /\ UNCHANGED <<scan_thread, tree, pending_folder, processed_folder, known_files,
                   excel_path, threshold, vehicles, enabled>>

(***************************************************************************)
(* parse_invoice, lines 220-271: the ensemble block and the return         *)
(***************************************************************************)
\* an ensemble block that leaves `result` as it was when the extractor fails
UseRegexOnly_forgotten(best, current) == current

\* result = best_result, lines 249 and 256: the rule-based record is returned as it is
UseRegexOnly(best, current) == best

Ensemble ==
    /\ pc = "ensemble"
    /\ pc' = "done"
    \* e: the global after get_ml_extractor(); loading spaCy may fail
    /\ IF config.ml.enabled /\ config.ml.ensemble.enabled /\ best_result # None
       THEN \E e \in get_ml_extractor :
              /\ _ml_extractor' = e
              /\ IF e = "None"
                 THEN /\ result' = UseRegexOnly(best_result, result)
                      /\ ml_status' = "unavailable"
                 ELSE \/ LET ml_result     == ner_extract(pdf.ents)
                              ml_confidence == get_confidence(ml_result)
                          IN  /\ result' = merge_results(config, best_result, ml_result,
                                                         best_confidence, ml_confidence)
                              /\ ml_status' = "merged"
                      \/ \* extract or get_confidence raises: except at line 253
                         /\ result' = UseRegexOnly(best_result, result)
                         /\ ml_status' = "raised"
       ELSE /\ result' = IF best_result # None THEN best_result ELSE result
            /\ ml_status' = "not_run"
            /\ UNCHANGED _ml_extractor
    /\ UNCHANGED <<config, _layout_classifier, pdf, text, lines, strategy_names, idx,
                   best_result, best_confidence, best_strategy, log, layout_status, arg, out>>
    /\ UNCHANGED <<scan_thread, tree, pending_folder, processed_folder, known_files,
                   excel_path, threshold, vehicles, enabled>>

(***************************************************************************)
(* Calls of the parser_utils functions on their own, as the tests make     *)
(* them                                                                    *)
(***************************************************************************)
\* what the banking patterns find in the texts extract_banking_info is called on;
\* the second pattern of a pair is consulted only when the first finds nothing, so
\* it is left out where the first finds something, but for the IBAN patterns of a
\* text with a labeled IBAN after an unlabeled one
CallExtractBankingInfo ==
    /\ pc = "idle"
    /\ \E m \in
            {[NoFinds EXCEPT
                !["IBAN_PATTERN_LABELED"] = iban[1], !["IBAN_PATTERN_UNLABELED"] = iban[2],
                !["BIC_PATTERN"] = bic[1], !["SWIFT_PATTERN"] = bic[2],
                !["ABA_ROUTING_PATTERNS"] = r, !["SORT_CODE_PATTERNS"] = sc,
                !["US_ACCOUNT_PATTERNS"] = us, !["UK_ACCOUNT_PATTERNS"] = uk,
                !["ACCOUNT_NUMBER_PATTERNS"] = ac] :
                iban \in {<<il, iu>> : il \in {NoMatch, <<"D", "E", "8", "9", " ", "3", "7", "0", "4", " ", "0", "0", "4", "4", " ", "0", "5", "3", "2", " ", "0", "1", "3", "0", " ", "0", "0">>, <<"D", "E", "8", "9", "3", "7", "0", "4", "0", "0", "4", "4", "0", "5", "3", "2", "0", "1", "3", "0", "0", "1">>} \ {NoMatch},
                                       iu \in {NoMatch}}
                        \cup {<<<<"D", "E", "8", "9", "3", "7", "0", "4", "0", "0", "4", "4", "0", "5", "3", "2", "0", "1", "3", "0", "9", "9">>,
                                <<"D", "E", "8", "9", "3", "7", "0", "4", "0", "0", "4", "4", "0", "5", "3", "2", "0", "1", "3", "0", "0", "0">>>>,
                              <<<<"D", "E", "8", "9", " ", "3", "7", "0", "4", " ", "0", "0", "4", "4", " ", "0", "5", "3", "2", " ", "0", "1", "3", "0", " ", "0", "0">>,
                                <<"G", "B", "8", "2", "W", "E", "S", "T", "1", "2", "3", "4", "5", "6", "9", "8", "7", "6", "5", "4", "3", "2">>>>}
                        \cup {<<NoMatch, iu>> : iu \in {NoMatch, <<"U", "S", "3", "4", "0", "1", "5", "2", "0", "2", "0", "0", "1", "0", "2", "6", "2", "8", "4", "0", "6", "6">>}},
                bic \in {<<b, sw>> : b \in {NoMatch, <<"D", "E", "U", "T", "D", "E", "F", "F">>, <<"D", "E", "U", "T", "1", "E", "F", "F">>} \ {NoMatch},
                                     sw \in {NoMatch}}
                        \cup {<<NoMatch, sw>> : sw \in {NoMatch, <<"D", "E", "U", "T", "D", "E", "F", "F", "5", "0", "0">>}},
                r  \in {<<NoMatch, NoMatch, NoMatch>>, <<<<"1", "2", "1", "0", "0", "0", "2", "4", "8">>, NoMatch, NoMatch>>,
                        <<NoMatch, <<"1", "2", "1", "0", "0", "0", "2", "4", "9">>, <<"0", "2", "1", "0", "0", "0", "0", "2", "1">>>>},
                sc \in {<<NoMatch, NoMatch>>, <<<<"6", "0", " ", "1", "6", " ", "1", "3">>, NoMatch>>, <<<<"1", "2", "3", "4", "5">>, <<"2", "0", "-", "0", "0", "-", "0", "0">>>>},
                us \in {<<NoMatch, NoMatch>>, <<<<"1", "2", "3", "4", "5">>, <<"1", "2", "3", "4", "5", "6", "7", "8", "9">>>>},
                uk \in {<<NoMatch, NoMatch>>, <<NoMatch, <<"8", "7", "6", "5", "4", "3", "2", "1">>>>},
                ac \in {<<NoMatch, NoMatch, NoMatch>>, <<<<"1", "2", "-", "3", "4", " ", "5", "6">>, NoMatch, NoMatch>>}} :
         /\ pc' = "extract_banking_info"
         /\ arg' = m
         /\ out' = extract_banking_info(m)
         /\ UNCHANGED <<config, _ml_extractor, _layout_classifier, pdf, text, lines,
                        strategy_names, idx, best_result, best_confidence, best_strategy,
                        result, log, layout_status, ml_status>>
    /\ UNCHANGED <<scan_thread, tree, pending_folder, processed_folder, known_files,
                   excel_path, threshold, vehicles, enabled>>

\* the dicts detect_payment_method is called on: a key may be absent, hold the
\* sentinel, or hold a value
CallDetectPaymentMethod ==
    /\ pc = "idle"
    /\ \E banking_info \in
            {[k \in {x \in {"iban", "routing_number", "sort_code"} : d[x] # <<"absent">>} |-> d[k]] :
                d \in [iban : {<<"absent">>, PARSING_FAILED, NoMatch, <<"D", "E", "8", "9", "3", "7", "0", "4", "0", "0", "4", "4", "0", "5", "3", "2", "0", "1", "3", "0", "0", "0">>,
                               <<"U", "S", "6", "4", "S", "V", "B", "K", "U", "S", "6", "S", "3", "3", "0", "0", "9", "5", "8", "8", "7", "9">>, <<"d", "e", "8", "9", "3", "7", "0", "4", "0", "0", "4", "4", "0", "5", "3", "2", "0", "1", "3", "0", "0", "0">>},
                       routing_number : {<<"absent">>, PARSING_FAILED, <<"1", "2", "1", "0", "0", "0", "2", "4", "8">>},
                       sort_code : {<<"absent">>, PARSING_FAILED, <<"2", "0", "-", "0", "0", "-", "0", "0">>}]} :
         /\ pc' = "detect_payment_method"
         /\ arg' = banking_info
         /\ out' = detect_payment_method(banking_info)
         /\ UNCHANGED <<config, _ml_extractor, _layout_classifier, pdf, text, lines,
                        strategy_names, idx, best_result, best_confidence, best_strategy,
                        result, log, layout_status, ml_status>>
    /\ UNCHANGED <<scan_thread, tree, pending_folder, processed_folder, known_files,
                   excel_path, threshold, vehicles, enabled>>

\* the records calculate_confidence is called on: the default record with the
\* fields of `found` extracted, the parties as names or as e-mail addresses
CallCalculateConfidence ==
    /\ pc = "idle"
    /\ \E found \in SUBSET {"sender", "recipient", "amount", "iban", "bic", "routing_number",
                             "sort_code", "account_number", "bank_name", "supporting"},
          emails \in BOOLEAN,
          payment_method \in {PARSING_FAILED, SEPA, ACH, BACS} :
         LET value == [FullParty EXCEPT
                         !["sender"] = IF emails THEN @ ELSE NamedParty["sender"],
                         !["recipient"] = IF emails THEN @ ELSE NamedParty["recipient"]]
                      @@ SepaFinds @@ [amount |-> <<"1", ".", "2", "5", "0", ",", "0", "0">>,
                                       iban |-> <<"D", "E", "8", "9", "3", "7", "0", "4", "0", "0", "4", "4", "0", "5", "3", "2", "0", "1", "3", "0", "0", "0">>,
                                       bic |-> <<"D", "E", "U", "T", "D", "E", "F", "F">>,
                                       routing_number |-> <<"1", "2", "1", "0", "0", "0", "2", "4", "8">>,
                                       sort_code |-> <<"2", "0", "-", "0", "0", "-", "0", "0">>,
                                       account_number |-> <<"1", "2", "3", "4", "5", "6", "7", "8">>,
                                       bank_name |-> <<"D", "e", "u", "t", "s", "c", "h", "e", " ", "B", "a", "n", "k">>,
                                       currency |-> <<"E", "U", "R">>]
             record == [k \in ResultKeys |->
                          IF k = "payment_method" THEN payment_method
                          ELSE IF \/ k \in found
                                  \/ /\ "supporting" \in found
                                     /\ k \in (PartyKeys \ {"sender", "recipient"})
                                               \cup {"currency"} \cup MetadataKeys \cup TaxKeys
                          THEN value[k]
                          ELSE create_default_result[k]]
         IN  /\ pc' = "calculate_confidence"
             /\ arg' = record
             /\ out' = calculate_confidence(record)
             /\ UNCHANGED <<config, _ml_extractor, _layout_classifier, pdf, text, lines,
                            strategy_names, idx, best_result, best_confidence, best_strategy,
                            result, log, layout_status, ml_status>>
    /\ UNCHANGED <<scan_thread, tree, pending_folder, processed_folder, known_files,
                   excel_path, threshold, vehicles, enabled>>

\* the records and confidences merge_results is called on; without an ml section
\* in the configuration the call raises AttributeError at line 84
CallMergeResults ==
    /\ pc = "idle"
    /\ \E regex_found \in SUBSET {"sender", "amount", "iban"},
          ml_found \in SUBSET {"sender", "amount", "recipient", "currency", "sender_address"},
          regex_confidence \in {F_030, F_050, F_090},
          ml_confidence \in {F_030, F_050, F_090} :
         LET regex_result == [k \in ResultKeys |->
                                IF k \in regex_found THEN (NamedParty @@ SepaFinds @@ [amount |-> <<"1", "0", "0">>,
                                                            iban |-> <<"D", "E", "8", "9", "3", "7", "0", "4", "0", "0", "4", "4", "0", "5", "3", "2", "0", "1", "3", "0", "0", "0">>])[k]
                                ELSE create_default_result[k]]
             ml_result == [k \in NerKeys |->
                             IF k \notin ml_found THEN _empty_result[k]
                             ELSE IF k = "amount" THEN <<"9", "9">>
                             ELSE IF k = "sender" THEN <<"A", "C", "M", "E">>
                             ELSE IF k = "currency" THEN <<"U", "S", "D">>
                             ELSE FullParty[k]]
         IN  /\ pc' = "merge_results"
             /\ arg' = [regex_result |-> regex_result, ml_result |-> ml_result,
                        regex_confidence |-> regex_confidence, ml_confidence |-> ml_confidence]
             /\ out' = IF "ml" \in DOMAIN config
                       THEN merge_results(config, regex_result, ml_result,
                                          regex_confidence, ml_confidence)
                       ELSE <<"AttributeError">>
             /\ UNCHANGED <<config, _ml_extractor, _layout_classifier, pdf, text, lines,
                            strategy_names, idx, best_result, best_confidence, best_strategy,
                            result, log, layout_status, ml_status>>
    /\ UNCHANGED <<scan_thread, tree, pending_folder, processed_folder, known_files,
                   excel_path, threshold, vehicles, enabled>>

\* the strings validate_aba_routing is called on: nine digits with every pair of
\* leading digits, and strings that are not nine decimal digits
CallValidateAbaRouting ==
    /\ pc = "idle"
    /\ \E routing \in
            {<<DigitSeq[a], DigitSeq[b]>> \o mid \o <<DigitSeq[z]>> :
                a \in 1..10, b \in 1..10, z \in 1..10,
                mid \in {<<"1", "0", "0", "0", "2", "4">>, <<"0", "0", "0", "0", "1", "5">>}}
            \cup {[i \in 1..9 |-> DigitSeq[a]] : a \in 1..10}
            \cup {<<>>, <<"1", "2", "1", "0", "0", "0", "2", "4">>,
                  <<"1", "2", "1", "0", "0", "0", "2", "4", "8", "1">>,
                  <<"1", "2", "1", "0", "0", "0", "2", "4", "A">>,
                  <<"1", "2", "1", " ", "0", "0", "0", "2", "4", "8">>,
                  <<"1", "2", "1", "0", "0", "0", "2", "4", "sup2">>,
                  <<"sup2", "2", "1", "0", "0", "0", "2", "4", "8">>,
                  <<"0", "0", "1", "0", "0", "0", "2", "4", "sup2">>} :
         /\ pc' = "validate_aba_routing"
         /\ arg' = routing
         /\ out' = IF validate_aba_routing_raises(routing) THEN "ValueError"
                   ELSE IF validate_aba_routing(routing) THEN "True" ELSE "False"
         /\ UNCHANGED <<config, _ml_extractor, _layout_classifier, pdf, text, lines,
                        strategy_names, idx, best_result, best_confidence, best_strategy,
                        result, log, layout_status, ml_status>>
    /\ UNCHANGED <<scan_thread, tree, pending_folder, processed_folder, known_files,
                   excel_path, threshold, vehicles, enabled>>

\* the strings validate_iban is called on: three IBANs, each also with one of its
\* digits replaced by another digit, and strings of other lengths and shapes
CallValidateIban ==
    /\ pc = "idle"
    /\ \E iban \in
            UNION {{[base EXCEPT ![i] = DigitSeq[d]] :
                        i \in {j \in 3..Len(base) : IsDecimalChar(base[j])}, d \in 1..10} :
                   base \in {<<"D", "E", "8", "9", "3", "7", "0", "4", "0", "0", "4", "4", "0", "5", "3", "2", "0", "1", "3", "0", "0", "0">>,
                            <<"G", "B", "8", "2", "W", "E", "S", "T", "1", "2", "3", "4", "5", "6", "9", "8", "7", "6", "5", "4", "3", "2">>,
                            <<"N", "O", "9", "3", "8", "6", "0", "1", "1", "1", "1", "7", "9", "4", "7">>}}
            \cup {<<"D", "E", "7", "9", "1", "2", "3", "4", "5", "6", "7", "8", "9", "0">>,
                  <<"D", "E", "5", "1", "1", "2", "3", "4", "5", "6", "7", "8", "9", "0", "1">>,
                  <<"D", "E", "8", "7", "1", "2", "3", "4", "5", "6", "7", "8", "9", "0", "1", "2", "3", "4", "5", "6", "7", "8", "9", "0", "1", "2", "3", "4", "5", "6", "7", "8", "9", "0">>,
                  <<"D", "E", "3", "4", "1", "2", "3", "4", "5", "6", "7", "8", "9", "0", "1", "2", "3", "4", "5", "6", "7", "8", "9", "0", "1", "2", "3", "4", "5", "6", "7", "8", "9", "0", "1">>,
                  <<"D", "E", "8", "9", " ", "3", "7", "0", "4", " ", "0", "0", "4", "4", " ", "0", "5", "3", "2", " ", "0", "1", "3", "0", " ", "0", "0">>,
                  <<"d", "e", "8", "9", "-", "3", "7", "0", "4", "-", "0", "0", "4", "4", "-", "0", "5", "3", "2", "-", "0", "1", "3", "0", "-", "0", "0">>,
                  <<"D", "E", "8", "9", "+", "3", "7", "0", "4", "0", "0", "4", "4", "0", "5", "3", "2", "0", "1", "3", "0", "0", "0">>,
                  <<"D", "E", "8", "9", "3", "7", "0", "4", "_", "0", "0", "4", "4", "0", "5", "3", "2", "0", "1", "3", "0", "0", "0">>,
                  <<"D", "E", "8", "9", "\t", "3", "7", "0", "4", "0", "0", "4", "4", "0", "5", "3", "2", "0", "1", "3", "0", "0", "0">>,
                  <<"D", "E", "8", "9", "3", "7", "0", "4", "0", "0", "4", "4", "0", "5", "3", "2", "0", "1", "3", "0", "0", "0", "_">>,
                  <<"D", "3", "8", "9", "3", "7", "0", "4", "0", "0", "4", "4", "0", "5", "3", "2", "0", "1", "3", "0", "0", "0">>,
                  <<"D", "E", "A", "9", "3", "7", "0", "4", "0", "0", "4", "4", "0", "5", "3", "2", "0", "1", "3", "0", "0", "0">>,
                  <<"D", "E", "8", "9", "3", "7", "0", "4", "0", "0", "4", "4", "0", "5", "3", "2", "0", "1", "3", "0", "0", "0", ".">>,
                  <<>>} :
         /\ pc' = "validate_iban"
         /\ arg' = iban
         /\ out' = validate_iban(iban)
         /\ UNCHANGED <<config, _ml_extractor, _layout_classifier, pdf, text, lines,
                        strategy_names, idx, best_result, best_confidence, best_strategy,
                        result, log, layout_status, ml_status>>
    /\ UNCHANGED <<scan_thread, tree, pending_folder, processed_folder, known_files,
                   excel_path, threshold, vehicles, enabled>>

\* the strings normalize_sort_code is called on: three pairs of digits with
\* hyphens, spaces or nothing between them, and strings that are no sort codes
CallNormalizeSortCode ==
    /\ pc = "idle"
    /\ \E sort_code \in
            {p[1] \o sep[1] \o p[2] \o sep[2] \o p[3] :
                p \in [1..3 -> {<<"2", "0">>, <<"0", "0">>, <<"1", "3">>}],
                sep \in [1..2 -> {<<>>, <<"-">>, <<" ">>, <<" ", "-">>}]}
            \cup {<<>>, <<"1", "2", "3", "4", "5">>, <<"1", "2", "3", "4", "5", "6", "7">>,
                  <<"1", "2", "-", "3", "4", "-", "5", "A">>, <<"-", " ", "-">>,
                  <<"2", "-", "0", "0", "0", "-", "0", "0", " ">>,
                  <<"2", "0", "\t", "0", "0", "0", "0">>,
                  <<"2", "0", "-", "0", "0", "-", "0", "sup2">>} :
         /\ pc' = "normalize_sort_code"
         /\ arg' = sort_code
         /\ out' = normalize_sort_code(sort_code)
         /\ UNCHANGED <<config, _ml_extractor, _layout_classifier, pdf, text, lines,
                        strategy_names, idx, best_result, best_confidence, best_strategy,
                        result, log, layout_status, ml_status>>
    /\ UNCHANGED <<scan_thread, tree, pending_folder, processed_folder, known_files,
                   excel_path, threshold, vehicles, enabled>>

\* longest amount string of separators and digits
MaxAmountLen == 4

\* the strings normalize_amount is called on: every string of '0', '1', '.' and
\* ',' up to MaxAmountLen, longer ones in the German and the US format, and
\* strings with a currency sign, a minus sign or whitespace, under each currency
\* and language hint
CallNormalizeAmount ==
    /\ pc = "idle"
    /\ \E n \in 0..MaxAmountLen :
         \E amount_str \in [1..n -> {"0", "1", ".", ","}]
                \cup {PARSING_FAILED, <<"1", ".", "0", ",", "1">>,
                      <<"1", ",", "0", ".", "1">>, <<"1", ".", "1", ".", "0", ",", "1">>,
                      <<"1", ",", "1", ",", "0", ".", "1">>,
                      <<"$", "1", ",", "0", "0", "0", ".", "5">>,
                      <<"euro", "1", ".", "0", "0", "0", ",", "5">>,
                      <<"-", "1", ".", "0", "0", "0", ",", "5">>,
                      <<" ", "1", ",", "5", " ">>},
            currency \in {None, <<"E", "U", "R">>, <<"U", "S", "D">>},
            language \in {"en", "de"} :
         /\ pc' = "normalize_amount"
         /\ arg' = [amount_str |-> amount_str, currency |-> currency, language |-> language]
         /\ out' = normalize_amount(amount_str, currency, language)
         /\ UNCHANGED <<config, _ml_extractor, _layout_classifier, pdf, text, lines,
                        strategy_names, idx, best_result, best_confidence, best_strategy,
                        result, log, layout_status, ml_status>>
    /\ UNCHANGED <<scan_thread, tree, pending_folder, processed_folder, known_files,
                   excel_path, threshold, vehicles, enabled>>

\* parse(text, lines) of each of the four strategies on one text
CallParse ==
    /\ pc = "idle"
    /\ \E t \in {<<"B", "i", "l", "l", " ", "t", "o", ":", " ", "B", "o", "b", " ", "1", "0", "0">>,
                <<"B", "i", "l", "l", " ", "t", "o", ":", " ", "B", "o", "b", " ", "1", "0", "0", " ", "E", "U", "R">>,
                <<"B", "i", "l", "l", " ", "t", "o", ":", " ", "B", "o", "b", " ", "$", "1", "0", "0">>,
                <<"B", "i", "l", "l", " ", "t", "o", ":", " ", "B", "o", "b", " ", "pound", "1", "0", "0">>,
                <<"B", "i", "l", "l", " ", "t", "o", ":", " ", "B", "o", "b", " ", "1", "0", "0", " ", "G", "B", "P">>,
                <<"B", "i", "l", "l", " ", "t", "o", ":", " ", "B", "o", "b", " ", "G", "B", "P", " ", "1", "0", "0", " ", "=", " ", "E", "U", "R", " ", "1", "1", "7">>},
          finds \in {NoFinds, SepaFinds, UsFinds},
          party \in {NoParty, NamedParty, FullParty} :
         /\ pc' = "parse"
         /\ arg' = [text |-> t, finds |-> finds, party |-> party]
         /\ out' = [strategy \in {TwoColumn, SingleColumnLabel, CompanySpecific,
                                  PatternFallback} |-> parse(strategy, t, finds, party)]
         /\ UNCHANGED <<config, _ml_extractor, _layout_classifier, pdf, text, lines,
                        strategy_names, idx, best_result, best_confidence, best_strategy,
                        result, log, layout_status, ml_status>>
    /\ UNCHANGED <<scan_thread, tree, pending_folder, processed_folder, known_files,
                   excel_path, threshold, vehicles, enabled>>

(***************************************************************************)
(* utils/file_manager.py                                                   *)
(*                                                                         *)
(* A folder is a record: whether it exists, and its entries by name.  An   *)
(* entry is a file or a directory; id tells one entry's content from       *)
(* another's.                                                              *)
(***************************************************************************)

\* how many entries the user puts into the pending folder
MaxFiles == 3

\* what the user may put into the pending folder
NewEntries ==
    {[name |-> <<"a", ".", "p", "d", "f">>, kind |-> "file"],
     [name |-> <<"b", ".", "P", "D", "F">>, kind |-> "file"],
     [name |-> <<"a", "_", "1", ".", "p", "d", "f">>, kind |-> "file"],
     [name |-> <<"c", ".", "t", "x", "t">>, kind |-> "file"],
     [name |-> <<"d", ".", "p", "d", "f">>, kind |-> "dir"]}

\* Path.suffix: the name from its last dot on, unless that dot is its first
\* or its last character
suffix(name) ==
    LET dots == {i \in 1..Len(name) : name[i] = "."}
        i == IF dots = {} THEN 0 ELSE CHOOSE d \in dots : \A e \in dots : e <= d
    IN IF 1 < i /\ i < Len(name) THEN SubSeq(name, i, Len(name)) ELSE <<>>

\* a scan that takes every entry of the pending folder for a PDF file
all_entries ==
    IF ~pending_folder.exists THEN {} ELSE DOMAIN pending_folder.entries

\* the PDF files scan_folder finds in the pending folder
all_pdfs ==
    IF ~pending_folder.exists THEN {}
    ELSE {name \in DOMAIN pending_folder.entries :
            /\ pending_folder.entries[name].kind = "file"
            /\ StrLower(suffix(name)) = <<".", "p", "d", "f">>}

\* sorted() of a collection of names: ascending by code point, a name before
\* the names it begins
sorted(names) ==
    LET code == <<".">> \o DigitSeq \o UpperSeq \o <<"_">> \o LowerSeq
        ord(c) == CHOOSE i \in 1..Len(code) : code[i] = c
        RECURSIVE less(_, _)
        less(a, b) ==
            IF b = <<>> THEN FALSE
            ELSE IF a = <<>> THEN TRUE
            ELSE IF Head(a) # Head(b) THEN ord(Head(a)) < ord(Head(b))
            ELSE less(Tail(a), Tail(b))
        RECURSIVE sort(_)
        sort(rest) ==
            IF rest = {} THEN <<>>
            ELSE LET first == CHOOSE a \in rest : \A b \in rest \ {a} : less(a, b)
                 IN <<first>> \o sort(rest \ {first})
    IN sort(names)

\* the user saves a file, or makes a directory, in the pending folder
DropFile ==
    /\ pc = "idle"
    /\ pending_folder.exists
    /\ LET ids == {pending_folder.entries[n].id : n \in DOMAIN pending_folder.entries}
                  \cup {processed_folder.entries[n].id : n \in DOMAIN processed_folder.entries}
           next_id == IF ids = {} THEN 1 ELSE 1 + CHOOSE i \in ids : \A j \in ids : j <= i
       IN /\ next_id <= MaxFiles
          /\ \E new \in NewEntries :
                /\ new.name \notin DOMAIN pending_folder.entries
                /\ pending_folder' =
                     [pending_folder EXCEPT !.entries =
                        @ @@ (new.name :> [kind |-> new.kind, id |-> next_id])]
    /\ UNCHANGED <<processed_folder, known_files>>
    /\ UNCHANGED <<config, _ml_extractor, _layout_classifier, pc, pdf, text, lines,
                   strategy_names, idx, best_result, best_confidence, best_strategy,
                   result, log, layout_status, ml_status, arg, out>>
    /\ UNCHANGED <<scan_thread, tree, excel_path, threshold, vehicles, enabled>>

\* FileManager.scan_folder(initial_scan)
ScanFolder ==
    /\ pc = "idle"
    /\ \E initial_scan \in BOOLEAN :
        LET new_files == IF initial_scan THEN all_pdfs ELSE all_pdfs \ known_files
        IN /\ arg' = <<initial_scan>>
           /\ known_files' = known_files \cup new_files
           /\ out' = sorted(new_files)
    /\ pc' = "scan_folder"
    /\ UNCHANGED <<pending_folder, processed_folder>>
    /\ UNCHANGED <<config, _ml_extractor, _layout_classifier, pdf, text, lines,
                   strategy_names, idx, best_result, best_confidence, best_strategy,
                   result, log, layout_status, ml_status>>
    /\ UNCHANGED <<scan_thread, tree, excel_path, threshold, vehicles, enabled>>

\* the path move_invoice moves to: processed_folder / filename, or the first
\* of base_1.ext, base_2.ext, ... that does not exist.  An empty filename
\* leaves the path of the folder itself, which exists.
destination(filename) ==
    LET \* the name of the processed folder itself
        processed_name == <<"p", "r", "o", "c", "e", "s", "s", "e", "d">>
        name == IF filename = <<>> THEN processed_name ELSE filename
        ext == suffix(name)
        base == SubSeq(name, 1, Len(name) - Len(ext))
        RECURSIVE str(_)
        str(n) == IF n < 10 THEN <<DigitSeq[n + 1]>>
                  ELSE str(n \div 10) \o <<DigitSeq[(n % 10) + 1]>>
        numbered(counter) == base \o <<"_">> \o str(counter) \o ext
        RECURSIVE free(_)
        free(counter) ==
            IF numbered(counter) \in DOMAIN processed_folder.entries
            THEN free(counter + 1) ELSE numbered(counter)
    IN IF filename # <<>> /\ filename \notin DOMAIN processed_folder.entries
       THEN filename ELSE free(1)

\* FileManager.move_invoice(filename)
MoveInvoice ==
    /\ pc = "idle"
    /\ \E filename \in {new.name : new \in NewEntries} \cup {<<>>} :
        /\ arg' = <<filename>>
        /\ IF ~pending_folder.exists
              \/ (filename # <<>> /\ filename \notin DOMAIN pending_folder.entries)
           THEN /\ out' = FALSE
                /\ UNCHANGED <<pending_folder, processed_folder, known_files>>
           ELSE /\ pending_folder' =
                     IF filename = <<>> THEN [exists |-> FALSE, entries |-> <<>>]
                     ELSE [pending_folder EXCEPT !.entries =
                             [n \in DOMAIN @ \ {filename} |-> @[n]]]
                /\ processed_folder' =
                     [processed_folder EXCEPT !.entries =
                        @ @@ (destination(filename) :>
                                IF filename = <<>> THEN [kind |-> "dir", id |-> 0]
                                ELSE pending_folder.entries[filename])]
                /\ known_files' = known_files \ {filename}
                /\ out' = TRUE
    /\ pc' = "move_invoice"
    /\ UNCHANGED <<config, _ml_extractor, _layout_classifier, pdf, text, lines,
                   strategy_names, idx, best_result, best_confidence, best_strategy,
                   result, log, layout_status, ml_status>>
    /\ UNCHANGED <<scan_thread, tree, excel_path, threshold, vehicles, enabled>>

(***************************************************************************)
(* gui/main.py: the background thread's scan and the mover thread, on one  *)
(* FileManager.  scan_folder takes two steps, the listing of the folder    *)
(* and the comparison with known_files; move_invoice takes one, for the    *)
(* removal from known_files after the move changes nothing a scan sees     *)
(* differently from the move itself.                                       *)
(***************************************************************************)
\* scan_folder(initial_scan=False), lines 42-50: the background thread lists
\* the PDF files of the pending folder
ListPending ==
    /\ pc = "idle"
    /\ scan_thread.pc = "sleep"
    /\ scan_thread' = [scan_thread EXCEPT !.pc = "listed", !.all_pdfs = all_pdfs]
    /\ UNCHANGED <<tree, pending_folder, processed_folder, known_files>>
    /\ UNCHANGED <<config, _ml_extractor, _layout_classifier, pc, pdf, text, lines,
                   strategy_names, idx, best_result, best_confidence, best_strategy,
                   result, log, layout_status, ml_status, arg, out>>
    /\ UNCHANGED <<excel_path, threshold, vehicles, enabled>>

\* scan_folder, lines 56-59, and background_scan_loop, lines 687-690: the
\* listed files that are not in known_files are returned as new, and
\* load_invoice puts each into the table
ReportNew ==
    /\ pc = "idle"
    /\ scan_thread.pc = "listed"
    /\ LET new_files == scan_thread.all_pdfs \ known_files
       IN /\ known_files' = known_files \cup new_files
          /\ scan_thread' = [pc |-> "sleep", all_pdfs |-> {}, new_files |-> sorted(new_files)]
          /\ tree' = tree \cup new_files
    /\ UNCHANGED <<pending_folder, processed_folder>>
    /\ UNCHANGED <<config, _ml_extractor, _layout_classifier, pc, pdf, text, lines,
                   strategy_names, idx, best_result, best_confidence, best_strategy,
                   result, log, layout_status, ml_status, arg, out>>
    /\ UNCHANGED <<excel_path, threshold, vehicles, enabled>>

\* process_invoice(filename) for a row of the table with both boxes ticked:
\* move_invoice, and on success remove_invoice_from_table
ProcessInvoice ==
    /\ pc = "idle"
    /\ \E filename \in tree :
        IF ~pending_folder.exists \/ filename \notin DOMAIN pending_folder.entries
        THEN UNCHANGED <<tree, pending_folder, processed_folder, known_files>>
        ELSE /\ pending_folder' =
                  [pending_folder EXCEPT !.entries = [n \in DOMAIN @ \ {filename} |-> @[n]]]
             /\ processed_folder' =
                  [processed_folder EXCEPT !.entries =
                     @ @@ (destination(filename) :> pending_folder.entries[filename])]
             /\ known_files' = known_files \ {filename}
             /\ tree' = tree \ {filename}
    /\ UNCHANGED <<config, _ml_extractor, _layout_classifier, pc, pdf, text, lines,
                   strategy_names, idx, best_result, best_confidence, best_strategy,
                   result, log, layout_status, ml_status, arg, out>>
    /\ UNCHANGED <<scan_thread, excel_path, threshold, vehicles, enabled>>

(***************************************************************************)
(* utils/vehicle_matcher.py                                                *)
(*                                                                         *)
(* A workbook is a record: whether the file exists, whether openpyxl loads *)
(* it and finds the sheet Vehicles with the columns id and legalName, and  *)
(* the rows below the header as <<id cell, legalName cell>>.  The dict     *)
(* vehicles is the sequence of its items <<id, legalName>> in insertion    *)
(* order.  A score is the fraction <<numerator, denominator>>.             *)
(***************************************************************************)

\* VehicleMatcher(excel_path, threshold); a threshold outside 0.0-1.0 becomes 0.9
NewVehicleMatcher ==
    /\ pc = "idle"
    /\ threshold = None
    /\ \E t \in {<<0, 1>>, <<3, 4>>, <<9, 10>>, <<1, 1>>, <<3, 2>>} :
        threshold' = IF t[1] <= t[2] THEN t ELSE <<9, 10>>
    /\ vehicles' = [loaded |-> FALSE, items |-> <<>>]
    /\ enabled' = TRUE
    /\ UNCHANGED <<config, _ml_extractor, _layout_classifier, pc, pdf, text, lines,
                   strategy_names, idx, best_result, best_confidence, best_strategy,
                   result, log, layout_status, ml_status, arg, out>>
    /\ UNCHANGED <<scan_thread, tree, pending_folder, processed_folder, known_files, excel_path>>

\* the user saves, replaces or deletes the workbook at excel_path
SaveWorkbook ==
    /\ pc = "idle"
    /\ threshold # None
    /\ \E workbook \in
            {[exists |-> FALSE, valid |-> FALSE, rows |-> <<>>],
             [exists |-> TRUE, valid |-> FALSE, rows |-> <<>>],
             [exists |-> TRUE, valid |-> TRUE, rows |-> <<>>],
             [exists |-> TRUE, valid |-> TRUE,
              rows |-> <<<<<<"V", "1">>, <<"A", "c", "m", "e">>>>, <<<<"V", "2">>, <<"A", "c", "n", "e">>>>>>],
             [exists |-> TRUE, valid |-> TRUE,
              rows |-> <<<<<<>>, <<"A", "c", "m", "e">>>>, <<<<"V", "1">>, <<" ", "A", "c", "m", "e", " ">>>>, <<<<"V", "2">>, <<" ", " ">>>>>>],
             [exists |-> TRUE, valid |-> TRUE,
              rows |-> <<<<<<"V", "1">>, <<"a", "b", "c">>>>, <<<<"V", "2">>, <<"a", "b", "d">>>>, <<<<"V", "1">>, <<"a", "b", "e">>>>>>]} :
        /\ workbook # excel_path
        /\ excel_path' = workbook
    /\ UNCHANGED <<config, _ml_extractor, _layout_classifier, pc, pdf, text, lines,
                   strategy_names, idx, best_result, best_confidence, best_strategy,
                   result, log, layout_status, ml_status, arg, out>>
    /\ UNCHANGED <<scan_thread, tree, pending_folder, processed_folder, known_files,
                   threshold, vehicles, enabled>>

\* load_vehicles(): the dict of the rows with an id and a name, both
\* stripped; not loaded when ConfigurationError is raised
load_vehicles(workbook) ==
    LET RECURSIVE rows_from(_, _)
        rows_from(i, dict) ==
            IF i > Len(workbook.rows) THEN dict
            ELSE LET vehicle_id == Strip(workbook.rows[i][1])
                     legal_name == Strip(workbook.rows[i][2])
                     known == {j \in 1..Len(dict) : dict[j][1] = vehicle_id}
                 IN IF vehicle_id = <<>> \/ legal_name = <<>> THEN rows_from(i + 1, dict)
                    ELSE IF known = {}
                    THEN rows_from(i + 1, Append(dict, <<vehicle_id, legal_name>>))
                    ELSE rows_from(i + 1, [j \in 1..Len(dict) |->
                            IF j \in known THEN <<vehicle_id, legal_name>> ELSE dict[j]])
    IN IF ~workbook.exists \/ ~workbook.valid THEN [loaded |-> FALSE, items |-> <<>>]
       ELSE [loaded |-> TRUE, items |-> rows_from(1, <<>>)]

\* rapidfuzz.fuzz.ratio(s1, s2) / 100.0: the normalized Indel similarity,
\* twice the length of a longest common subsequence over the sum of the lengths
ratio(s1, s2) ==
    LET RECURSIVE lcs(_, _)
        lcs(i, j) ==
            IF i = 0 \/ j = 0 THEN 0
            ELSE IF s1[i] = s2[j] THEN 1 + lcs(i - 1, j - 1)
            ELSE LET a == lcs(i - 1, j)
                     b == lcs(i, j - 1)
                 IN IF a >= b THEN a ELSE b
    IN IF Len(s1) + Len(s2) = 0 THEN <<1, 1>>
       ELSE <<2 * lcs(Len(s1), Len(s2)), Len(s1) + Len(s2)>>

\* VehicleMatcher.match_recipient(recipient_name)
MatchRecipient ==
    /\ pc = "idle"
    /\ threshold # None
    /\ \E recipient_name \in
            {<<>>, <<" ">>, PARSING_FAILED, <<"A", "c", "m", "e">>, <<" ", "A", "C", "M", "E">>, <<"A", "c", "m">>, <<"a", "b", "x">>, <<"x", "y", "z">>} :
        LET loaded == IF vehicles.loaded THEN vehicles ELSE load_vehicles(excel_path)
            recipient_normalized == Strip(recipient_name)
            RECURSIVE best(_, _)
            best(i, b) ==
                IF i > Len(loaded.items) THEN b
                ELSE LET score == ratio(StrLower(recipient_normalized),
                                        StrLower(loaded.items[i][2]))
                     IN IF score[1] * b.score[2] > b.score[1] * score[2]
                        THEN best(i + 1, [id |-> loaded.items[i][1],
                                          name |-> loaded.items[i][2], score |-> score])
                        ELSE best(i + 1, b)
            found == best(1, [id |-> None, name |-> None, score |-> <<0, 1>>])
        IN /\ arg' = <<recipient_name>>
           /\ vehicles' = loaded
           /\ enabled' = (enabled /\ loaded.loaded)
           /\ out' =
                IF \/ ~loaded.loaded
                   \/ ~enabled \/ loaded.items = <<>>
                   \/ recipient_name = <<>> \/ recipient_normalized = <<>>
                   \/ recipient_name = PARSING_FAILED
                THEN <<recipient_name, NOT_AVAILABLE, <<0, 1>>>>
                ELSE IF /\ found.score[1] * threshold[2] >= threshold[1] * found.score[2]
                        /\ found.id # None
                THEN <<found.name, found.id, found.score>>
                ELSE <<recipient_name, NOT_AVAILABLE, found.score>>
    /\ pc' = "match_recipient"
    /\ UNCHANGED <<config, _ml_extractor, _layout_classifier, pdf, text, lines,
                   strategy_names, idx, best_result, best_confidence, best_strategy,
                   result, log, layout_status, ml_status>>
    /\ UNCHANGED <<scan_thread, tree, pending_folder, processed_folder, known_files, excel_path, threshold>>

\* VehicleMatcher.reload()
Reload ==
    /\ pc = "idle"
    /\ threshold # None
    /\ vehicles' = [loaded |-> FALSE, items |-> <<>>]
    /\ enabled' = TRUE
    /\ arg' = <<>>
    /\ out' = None
    /\ pc' = "reload"
    /\ UNCHANGED <<config, _ml_extractor, _layout_classifier, pdf, text, lines,
                   strategy_names, idx, best_result, best_confidence, best_strategy,
                   result, log, layout_status, ml_status>>
    /\ UNCHANGED <<scan_thread, tree, pending_folder, processed_folder, known_files, excel_path, threshold>>

\* most calls of a getter in a row
MaxGetterCalls == 3

\* a getter called on its own, up to MaxGetterCalls times in a row; arg holds
\* what the calls of the row have returned
CallLazyGetter ==
    /\ \/ /\ pc \in {"idle", "get_ml_extractor"}
          /\ pc' = "get_ml_extractor"
          /\ Len(IF pc = "idle" THEN <<>> ELSE arg) < MaxGetterCalls
          /\ \E e \in get_ml_extractor :
                /\ _ml_extractor' = e
                /\ out' = e
                /\ arg' = Append(IF pc = "idle" THEN <<>> ELSE arg, e)
          /\ UNCHANGED _layout_classifier
       \/ /\ pc \in {"idle", "get_layout_classifier"}
          /\ pc' = "get_layout_classifier"
          /\ Len(IF pc = "idle" THEN <<>> ELSE arg) < MaxGetterCalls
          /\ \E c \in get_layout_classifier :
                /\ _layout_classifier' = c
                /\ out' = c
                /\ arg' = Append(IF pc = "idle" THEN <<>> ELSE arg, c)
          /\ UNCHANGED _ml_extractor
    /\ UNCHANGED <<config, pdf, text, lines, strategy_names, idx, best_result,
                   best_confidence, best_strategy, result, log, layout_status, ml_status>>
    /\ UNCHANGED <<scan_thread, tree, pending_folder, processed_folder, known_files,
                   excel_path, threshold, vehicles, enabled>>

\* the caller takes the returned value; the module globals stay
Return ==
    /\ pc \in {"done", "extract_banking_info", "detect_payment_method",
              "calculate_confidence", "merge_results", "validate_aba_routing",
              "validate_iban", "normalize_sort_code", "scan_folder", "move_invoice",
              "match_recipient", "reload", "parse",
              "normalize_amount", "get_ml_extractor", "get_layout_classifier"}
    /\ pc' = "idle"
    /\ pdf' = None /\ text' = <<>> /\ lines' = <<>> /\ strategy_names' = <<>>
    /\ idx' = 0 /\ best_result' = None /\ best_confidence' = F_0 /\ best_strategy' = "None"
    /\ result' = None /\ log' = <<>> /\ layout_status' = "none" /\ ml_status' = "none"
    /\ arg' = None /\ out' = None
    /\ UNCHANGED <<config, _ml_extractor, _layout_classifier>>
    /\ UNCHANGED <<scan_thread, tree, pending_folder, processed_folder, known_files,
                   excel_path, threshold, vehicles, enabled>>

Next ==
    \/ ExtractText
    \/ DetermineOrder
    \/ TryStrategy
    \/ Ensemble
    \/ CallExtractBankingInfo
    \/ CallDetectPaymentMethod
    \/ Return

Spec == Init /\ [][Next]_vars

(***************************************************************************)
(* The library functions called on their own, as the tests call them       *)
(***************************************************************************)
FunctionsNext ==
    \/ CallCalculateConfidence
    \/ CallMergeResults
    \/ CallValidateAbaRouting
    \/ CallValidateIban
    \/ CallNormalizeSortCode
    \/ CallParse
    \/ CallNormalizeAmount
    \/ Return

Functions == Init /\ [][FunctionsNext]_vars


FilesNext ==
    \/ DropFile
    \/ ScanFolder
    \/ MoveInvoice
    \/ Return

Files == Init /\ [][FilesNext]_vars

VehiclesNext ==
    \/ NewVehicleMatcher
    \/ SaveWorkbook
    \/ MatchRecipient
    \/ Reload
    \/ Return

Vehicles == Init /\ [][VehiclesNext]_vars

\* the GUI with its background scan and its mover threads, and the user
\* putting files into the pending folder
GuiNext ==
    \/ DropFile
    \/ ListPending
    \/ ReportNew
    \/ ProcessInvoice

Gui == Init /\ [][GuiNext]_vars

\* the getters of the collaborators called on their own
GettersNext ==
    \/ CallLazyGetter
    \/ Return

Getters == Init /\ [][GettersNext]_vars

(***************************************************************************)
(* Properties                                                              *)
(***************************************************************************)
\* parse_invoice has returned `result`
Done == pc = "done"
\* the file was read and gave text
Readable == Done /\ SourceError(pdf) = "None"
\* the strategy loop ran to its end
LoopRan == Readable /\ layout_status # "AttributeError"
AllSentinel(r) == \A k \in DOMAIN r : r[k] = PARSING_FAILED
ParseEntries == {i \in 1..Len(log) : log[i].op = "parse"}
Populated(d, k) == k \in DOMAIN d /\ d[k] # NoMatch /\ d[k] # PARSING_FAILED

\* C1: for a missing file, a PDF without pages, a PDF without extractable text
\* or a corrupted PDF, parse_invoice returns a record in which every field is
\* "PARSING FAILED" (that it returns at all is the step to "done")
C1_SourceErrorAllSentinel ==
    (Done /\ SourceError(pdf) # "None") => AllSentinel(result)

\* DD-DD-DD
SortCodeForm(s) ==
    /\ Len(s) = 8 /\ s[3] = "-" /\ s[6] = "-"
    /\ \A i \in {1, 2, 4, 5, 7, 8} : IsDigitChar(s[i])

ValidatedBanking(r) ==
    /\ r["iban"] # PARSING_FAILED => validate_iban(r["iban"])
    /\ r["bic"] # PARSING_FAILED => validate_bic(r["bic"])
    /\ r["routing_number"] # PARSING_FAILED => validate_aba_routing(r["routing_number"])
    /\ r["sort_code"] # PARSING_FAILED => SortCodeForm(r["sort_code"])

\* the candidate the two patterns of a field offer: the first, else the second
Candidate(m, first, second) == IF m[first] # NoMatch THEN m[first] ELSE m[second]

IbanCandidate(m) == Candidate(m, "IBAN_PATTERN_LABELED", "IBAN_PATTERN_UNLABELED")
BicCandidate(m) == Candidate(m, "BIC_PATTERN", "SWIFT_PATTERN")
RoutingCandidate(m) == FirstMatch(m["ABA_ROUTING_PATTERNS"])
SortCodeCandidate(m) == FirstMatch(m["SORT_CODE_PATTERNS"])

\* C2: in every record of extract_banking_info and every record parse_invoice
\* returns, a non-sentinel iban, bic, routing_number passes its validator and a
\* non-sentinel sort_code reads DD-DD-DD; a candidate that fails its validator
\* leaves the field at the sentinel
C2_BankingFieldsValidated ==
    /\ Done => ValidatedBanking(result)
    /\ pc = "extract_banking_info" =>
        /\ ValidatedBanking(out)
        /\ (IbanCandidate(arg) # NoMatch /\ ~validate_iban(IbanCandidate(arg)))
              => out["iban"] = PARSING_FAILED
        /\ (BicCandidate(arg) # NoMatch /\ ~validate_bic(BicCandidate(arg)))
              => out["bic"] = PARSING_FAILED
        /\ (RoutingCandidate(arg) # NoMatch /\ ~validate_aba_routing(RoutingCandidate(arg)))
              => out["routing_number"] = PARSING_FAILED
        /\ (SortCodeCandidate(arg) # NoMatch /\ ~validate_sort_code(SortCodeCandidate(arg)))
              => out["sort_code"] = PARSING_FAILED

\* an IBAN-shaped string with a wrong checksum next to a valid BIC, routing
\* number and sort code
C2_Witness ==
    /\ pc = "extract_banking_info"
    /\ IbanCandidate(arg) # NoMatch /\ ~validate_iban(IbanCandidate(arg))
    /\ out["iban"] = PARSING_FAILED
    /\ out["bic"] # PARSING_FAILED
    /\ out["routing_number"] # PARSING_FAILED
    /\ out["sort_code"] # PARSING_FAILED

\* C3: a strategy whose can_handle is false is never parsed, and once a result
\* scores >= 0.9 no later strategy has can_handle or parse invoked
C3_SkipAndEarlyExit ==
    /\ \A i \in ParseEntries :
          /\ i > 1
          /\ log[i - 1] = LogEntry("can_handle", log[i].strategy, TRUE, F_0)
          /\ can_handle(log[i].strategy, text, lines)
    /\ \A i \in ParseEntries : FLeq(F_090, log[i].confidence) => i = Len(log)
    /\ \A i \in ParseEntries : \A j \in 1..Len(log) :
          (j # i /\ j # i - 1) => log[j].strategy # log[i].strategy

\* a two-column result reached 0.9 and the fallback strategy, which accepts
\* the text, was not asked
C3_Witness ==
    /\ Done
    /\ Len(log) = 2
    /\ log[2].op = "parse" /\ log[2].strategy = TwoColumn
    /\ FLeq(F_090, log[2].confidence)
    /\ can_handle(PatternFallback, text, lines)

\* C4: with the layout classifier disabled, unavailable or raising, the
\* strategies are tried in the fixed order and the rule-based result of that
\* run is returned, not the all-default record
C4_DefaultOrderStillParses ==
    (Readable /\ layout_status # "predicted") =>
        /\ strategy_names = DefaultOrder
        /\ (pdf.finds # NoFinds /\ \E s \in {TwoColumn, SingleColumnLabel, CompanySpecific, PatternFallback} : can_handle(s, text, lines))
              => result # create_default_result

\* C5: when no strategy accepts the text, or every result scores 0.0, the
\* record returned has every field at the sentinel and the entity extractor is
\* not invoked
C5_NoBestAllSentinel ==
    (LoopRan /\ \A i \in ParseEntries : log[i].confidence = F_0) =>
        /\ AllSentinel(result)
        /\ ml_status = "not_run"

\* the highest confidence a parse in the log reached
BestLogged(i) == \A j \in ParseEntries : FLeq(log[j].confidence, log[i].confidence)

\* C6: with ensemble mode on and the entity extractor unavailable, or raising
\* in extract or get_confidence, the best rule-based record is returned
\* unmodified
C6_MlFailureKeepsRegex ==
    (Done /\ ml_status \in {"unavailable", "raised"}) =>
        /\ config.ml.enabled /\ config.ml.ensemble.enabled
        /\ result = best_result
        /\ \E i \in ParseEntries :
              /\ BestLogged(i)
              /\ calculate_confidence(result) = log[i].confidence
              /\ FLess(F_0, log[i].confidence)

C6_Witness ==
    /\ Done /\ ml_status = "raised"
    /\ config.ml.ensemble.enabled
    /\ result # create_default_result
    /\ Populated(result, "sender")

\* C7: PatternFallbackStrategy.can_handle is true only where the other three
\* can_handle are false, and the fallback is never attempted on a text with a
\* two-column bill-to anchor
C7_FallbackExclusive ==
    text # <<>> =>
        /\ PatternFallback_can_handle(text, lines) =>
              /\ ~TwoColumn_can_handle(text, lines)
              /\ ~SingleColumnLabel_can_handle(text, lines)
              /\ ~CompanySpecific_can_handle(text, lines)
        /\ TwoColumn_can_handle(text, lines) =>
              \A i \in ParseEntries : log[i].strategy # PatternFallback

\* C8: every record parse_invoice returns has exactly the keys of
\* create_default_result
C8_KeySetFixed ==
    Done => DOMAIN result = DOMAIN create_default_result

\* a record the ensemble merge changed
C8_Witness ==
    /\ Done /\ ml_status = "merged"
    /\ result # best_result
    /\ best_result # None

\* payment_method is set only next to a banking identifier
MethodHasIdentifier(r) ==
    r["payment_method"] # PARSING_FAILED =>
        \/ r["iban"] # PARSING_FAILED
        \/ r["routing_number"] # PARSING_FAILED
        \/ r["sort_code"] # PARSING_FAILED

\* C9: in every record of extract_banking_info and every record parse_invoice
\* returns, payment_method is non-sentinel only if iban, routing_number or
\* sort_code is non-sentinel
C9_PaymentMethodNeedsIdentifier ==
    /\ Done => MethodHasIdentifier(result)
    /\ pc = "extract_banking_info" => MethodHasIdentifier(out)

\* an account number alone: no payment method
C9_Witness ==
    /\ pc = "extract_banking_info"
    /\ out["account_number"] # PARSING_FAILED
    /\ out["iban"] = PARSING_FAILED /\ out["routing_number"] = PARSING_FAILED
    /\ out["sort_code"] = PARSING_FAILED
    /\ out["payment_method"] = PARSING_FAILED

\* the priority order of the payment method, read off the populated fields
MethodByPriority(d, method) ==
    /\ (Populated(d, "iban") /\ Slice(d["iban"], 0, 2) \in SEPA_COUNTRIES) => method = SEPA
    /\ (Populated(d, "iban") /\ Slice(d["iban"], 0, 2) \notin SEPA_COUNTRIES)
          => method = SEPA_INTERNATIONAL
    /\ (~Populated(d, "iban") /\ Populated(d, "routing_number")) => method = ACH
    /\ (~Populated(d, "iban") /\ ~Populated(d, "routing_number") /\ Populated(d, "sort_code"))
          => method = BACS
    /\ (~Populated(d, "iban") /\ ~Populated(d, "routing_number") /\ ~Populated(d, "sort_code"))
          => method = PARSING_FAILED

Scored == pc = "calculate_confidence"
\* values a field can change to from the sentinel
Extracted(k) ==
    IF k \in {"sender", "recipient"} THEN {NamedParty[k], FullParty[k]}
    ELSE IF k \in PartyKeys THEN {FullParty[k]}
    ELSE IF k = "payment_method" THEN {SEPA, SEPA_INTERNATIONAL, ACH, BACS}
    ELSE IF k = "amount" THEN {<<"1", "0", "0", ".", "0", "0">>}
    ELSE IF k = "iban" THEN {<<"G", "B", "8", "2", "W", "E", "S", "T", "1", "2", "3", "4", "5", "6", "9", "8", "7", "6", "5", "4", "3", "2">>}
    ELSE IF k = "routing_number" THEN {<<"0", "2", "1", "0", "0", "0", "0", "2", "1">>}
    ELSE IF k = "sort_code" THEN {<<"6", "0", "-", "1", "6", "-", "1", "3">>}
    ELSE {<<"X", "1">>}

\* C11: calculate_confidence is monotonic non-decreasing: changing any single field
\* of a record from the sentinel to a valid value, all other fields held fixed,
\* never lowers the score.
C11_ConfidenceMonotonic ==
    Scored =>
        \A k \in DOMAIN arg :
            arg[k] = PARSING_FAILED =>
                \A v \in Extracted(k) :
                    FLeq(out, calculate_confidence([arg EXCEPT ![k] = v]))

\* the record with the identifiers of every banking path but `path` at the sentinel
OnlyPath(record, path) ==
    [k \in DOMAIN record |->
        IF \/ k = "iban" /\ path # "iban"
           \/ k = "bic" /\ path # "iban"
           \/ k = "routing_number" /\ path # "us"
           \/ k = "sort_code" /\ path # "uk"
           \/ k = "account_number" /\ path \notin {"us", "uk", "account"}
        THEN PARSING_FAILED ELSE record[k]]

\* C12: for every record containing all fields, calculate_confidence returns a value
\* in [0.0, 1.0]; the critical fields contribute at most 0.50, the banking fields
\* (the bank-name bonus included) at most 0.30, the supporting fields at most 0.20;
\* and at most one of the IBAN, US, UK and bare-account paths contributes: the
\* banking contribution is the one of a record holding one path's identifiers only.
C12_BucketsBounded ==
    Scored =>
        /\ DOMAIN arg = ResultKeys
        /\ FLeq(F_0, out) /\ FLeq(out, F_1)
        /\ FLeq(CriticalScore(arg), F_050)
        /\ FLeq(BankingScore(arg), F_030)
        /\ FLeq(SupportingScore(arg), F_020)
        /\ FAdd(FAdd(CriticalScore(arg), BankingScore(arg)), SupportingScore(arg)) = out
        /\ \E path \in {"iban", "us", "uk", "account"} :
              BankingScore(arg) = BankingScore(OnlyPath(arg, path))

\* a record with an IBAN, a BIC, a routing number and a bank name, scored: the
\* banking weights add up to more than the cap
C12_Witness ==
    /\ Scored
    /\ Present(arg, "iban") /\ Present(arg, "routing_number") /\ Present(arg, "sort_code")
    /\ FLess(F_030, BankingRaw(arg))
    /\ FLess(F_020, SupportingRaw(arg)) \/ SupportingRaw(arg) = F_020

\* the best record and confidence of the strategies of `order` from position i on,
\* computed from the file alone
RECURSIVE Selected(_, _, _, _)
Selected(p, order, i, best) ==
    IF i > Len(order) THEN best
    ELSE IF ~can_handle(order[i], AccumulateText(p.pages), normalize_text(AccumulateText(p.pages)))
    THEN Selected(p, order, i + 1, best)
    ELSE LET r == parse(order[i], AccumulateText(p.pages), p.finds, p.party)
             c == calculate_confidence(r)
             b == IF FLess(best.confidence, c) THEN [result |-> r, confidence |-> c] ELSE best
         IN  IF FLeq(F_090, c) THEN b ELSE Selected(p, order, i + 1, b)

\* the record parse_invoice returns, computed from the file, the order, the
\* configuration and what the ensemble block met
Returned(p, order, cfg, status) ==
    IF SourceError(p) # "None" \/ "ml" \notin DOMAIN cfg THEN create_default_result
    ELSE LET sel == Selected(p, order, 1, [result |-> None, confidence |-> F_0])
         IN  IF sel.result = None THEN create_default_result
             ELSE IF status = "merged"
             THEN merge_results(cfg, sel.result, ner_extract(p.ents), sel.confidence,
                                get_confidence(ner_extract(p.ents)))
             ELSE sel.result

Merged == pc = "merge_results" /\ "ml" \in DOMAIN config
\* ml_result.get(field, PARSING_FAILED)
MlValue(field) == Get(arg.ml_result, field, PARSING_FAILED)

\* C14: merge_results returns, for each field of the rule-based record: the
\* rule-based value when ML confidence is below the configured minimum (the record
\* is then returned unmodified); otherwise the ML value if the rule-based value is
\* the sentinel and the ML value is not; the ML value if prefer_regex is off, both
\* values are non-sentinel and ML confidence is strictly greater than the
\* rule-based confidence; and the rule-based value in every other case.
C14_MergePerField ==
    Merged =>
        /\ DOMAIN out = DOMAIN arg.regex_result
        /\ FLess(arg.ml_confidence, config.ml.ensemble.ml_min_confidence)
              => out = arg.regex_result
        /\ ~FLess(arg.ml_confidence, config.ml.ensemble.ml_min_confidence) =>
              \A field \in DOMAIN out :
                  LET regex_value == arg.regex_result[field]
                      fills   == regex_value = PARSING_FAILED /\ MlValue(field) # PARSING_FAILED
                      ml_wins == /\ ~config.ml.ensemble.prefer_regex
                                 /\ regex_value # PARSING_FAILED
                                 /\ MlValue(field) # PARSING_FAILED
                                 /\ FLess(arg.regex_confidence, arg.ml_confidence)
                  IN  /\ fills => out[field] = MlValue(field)
                      /\ ml_wins => out[field] = MlValue(field)
                      /\ ~fills /\ ~ml_wins => out[field] = regex_value

\* a merge in which ML fills the recipient the rules missed and, with
\* prefer_regex off and the higher confidence, replaces the sender they found
C14_Witness ==
    /\ Merged
    /\ ~config.ml.ensemble.prefer_regex
    /\ arg.regex_result["recipient"] = PARSING_FAILED
    /\ out["recipient"] = MlValue("recipient") /\ out["recipient"] # PARSING_FAILED
    /\ arg.regex_result["sender"] # PARSING_FAILED
    /\ out["sender"] = MlValue("sender") /\ out["sender"] # arg.regex_result["sender"]
    /\ out["iban"] = arg.regex_result["iban"] /\ out["iban"] # PARSING_FAILED

\* validate_aba_routing was called on the string `arg`
AbaCalled == pc = "validate_aba_routing"
\* `s` is a string of exactly 9 decimal digits
NineDigits(s) == Len(s) = 9 /\ \A i \in 1..9 : s[i] \in {"0", "1", "2", "3", "4", "5", "6", "7", "8", "9"}
\* the first two digits of `s` as a Federal Reserve routing symbol
District(s) == 10 * DigitVal(s[1]) + DigitVal(s[2])
\* the weighted digit sum 3, 7, 1 of the nine digits of `s`
WeightedSum(s) ==
    3 * DigitVal(s[1]) + 7 * DigitVal(s[2]) + DigitVal(s[3]) +
    3 * DigitVal(s[4]) + 7 * DigitVal(s[5]) + DigitVal(s[6]) +
    3 * DigitVal(s[7]) + 7 * DigitVal(s[8]) + DigitVal(s[9])

\* the part of C15 on strings of nine digits: accepted exactly when the weighted
\* sum is a multiple of 10 and the first two digits lie in 01-12, 21-32, 61-72 or
\* are 80; every string of one repeated digit is rejected
AbaNineDigitsRule ==
    AbaCalled /\ NineDigits(arg) =>
        /\ out = "True" <=>
              /\ WeightedSum(arg) % 10 = 0
              /\ District(arg) \in (1..12) \cup (21..32) \cup (61..72) \cup {80}
        /\ out \in {"True", "False"}
        /\ (\A i \in 1..9 : arg[i] = arg[1]) => out = "False"

\* C15: for every string of exactly 9 digits validate_aba_routing accepts exactly
\* when 3*(d1+d4+d7) + 7*(d2+d5+d8) + (d3+d6+d9) is 0 modulo 10 and the first two
\* digits lie in a valid Federal Reserve district range; every all-same-digit
\* string is rejected and every string that is not 9 digits is rejected.
C15_AbaChecksumAndFormat ==
    /\ AbaNineDigitsRule
    /\ AbaCalled /\ ~NineDigits(arg) => out = "False"

\* validate_iban has returned `out` for the string `arg`
IbanCalled == pc = "validate_iban"
\* the string with spaces and hyphens removed, in upper case
Compact(s) == StrUpper(SelectSeq(s, LAMBDA c : c \notin {" ", "-"}))
\* the number an IBAN stands for, modulo 97: the characters from the fifth on
\* followed by the first four, each letter A..Z written as 10..35
RECURSIVE Remainder(_, _)
Remainder(n, acc) ==
    IF n = <<>> THEN acc
    ELSE IF IsDecimalChar(Head(n)) THEN Remainder(Tail(n), (10 * acc + DigitVal(Head(n))) % 97)
    ELSE Remainder(Tail(n), (100 * acc + Base36Val(Head(n))) % 97)
\* `n` consists of letters and digits, so that it stands for a number
Alphanumeric(n) == \A i \in 1..Len(n) : IsDecimalChar(n[i]) \/ IsUpperChar(n[i])

\* the second half of C16: a string that differs from an accepted IBAN in exactly
\* one digit is rejected
IbanSingleDigitChange ==
    IbanCalled =>
        \A base \in {<<"D", "E", "8", "9", "3", "7", "0", "4", "0", "0", "4", "4", "0", "5", "3", "2", "0", "1", "3", "0", "0", "0">>,
                      <<"G", "B", "8", "2", "W", "E", "S", "T", "1", "2", "3", "4", "5", "6", "9", "8", "7", "6", "5", "4", "3", "2">>,
                      <<"N", "O", "9", "3", "8", "6", "0", "1", "1", "1", "1", "7", "9", "4", "7">>} :
            /\ arg = base => out
            /\ /\ Len(arg) = Len(base)
               /\ Cardinality({i \in 1..Len(base) : arg[i] # base[i]}) = 1
               /\ \A i \in 1..Len(base) : arg[i] # base[i] => IsDecimalChar(arg[i]) /\ IsDecimalChar(base[i])
               => ~out

\* C16: validate_iban accepts a string exactly when, with spaces and hyphens
\* removed and in upper case, it has 15 to 34 characters, starts with two letters
\* and two digits, and the number it stands for (characters rotated, letters
\* mapped) is 1 modulo 97; hence changing any single digit of an accepted IBAN
\* yields a rejected one.
C16_IbanMod97 ==
    /\ IbanCalled =>
          (out <=> LET n == Compact(arg)
                   IN  /\ 15 <= Len(n) /\ Len(n) <= 34
                       /\ IsUpperChar(n[1]) /\ IsUpperChar(n[2])
                       /\ IsDecimalChar(n[3]) /\ IsDecimalChar(n[4])
                       /\ Alphanumeric(n)
                       /\ Remainder(SubSeq(n, 5, Len(n)) \o SubSeq(n, 1, 4), 0) = 1)
    /\ IbanSingleDigitChange


\* normalize_sort_code has returned `out` for a string validate_sort_code accepts
SortCodeNormalized == pc = "normalize_sort_code" /\ validate_sort_code(arg)

Scanned == {out[i] : i \in 1..Len(out)}

\* the files of the pending folder whose name ends in .pdf, in any case
PendingPdfs ==
    {n \in DOMAIN pending_folder.entries :
        /\ pending_folder.entries[n].kind = "file"
        /\ Len(n) > 4
        /\ StrLower(SubSeq(n, Len(n) - 3, Len(n))) = <<".", "p", "d", "f">>}

\* C18: a scan_folder call that is not an initial scan returns exactly the
\* PDF files of the pending folder whose names are not in known_files, each
\* once; every scan leaves the names it returns in known_files, and a name
\* leaves known_files only in a move_invoice call, so a name that one scan
\* returned is returned by a later non-initial scan only after move_invoice
\* removed it; no scan returns a name without the .pdf suffix.
C18_ScanReturnsNewPdfs ==
    [][/\ pc' = "scan_folder" =>
            LET returned == {out'[i] : i \in 1..Len(out')}
            IN /\ ~arg'[1] => returned = PendingPdfs \ known_files
               /\ Len(out') = Cardinality(returned)
               /\ returned \subseteq known_files'
               /\ \A n \in returned :
                    StrLower(SubSeq(n, Len(n) - 3, Len(n))) = <<".", "p", "d", "f">>
       /\ ~(known_files \subseteq known_files') => pc' = "move_invoice"]_vars

\* a scan that is not initial returned a new PDF file and held back a known
\* one, with a text file and a directory named like a PDF in the folder
C18_Witness ==
    /\ pc = "scan_folder"
    /\ ~arg[1]
    /\ Scanned # {}
    /\ PendingPdfs \ Scanned # {}
    /\ \E n \in DOMAIN pending_folder.entries : n \notin PendingPdfs

\* name with _n put before its extension
Numbered(name, n) ==
    LET dots == {i \in 2..Len(name) - 1 : name[i] = "."}
        cut == IF dots = {} THEN Len(name) + 1
               ELSE CHOOSE d \in dots : \A e \in dots : e <= d
    IN SubSeq(name, 1, cut - 1) \o <<"_", DigitSeq[n + 1]>> \o SubSeq(name, cut, Len(name))

\* the name a moved file gets in the processed folder: its own, or the first
\* of base_1.ext, base_2.ext, ... that no entry of the folder has
FirstFree(name) ==
    IF name \notin DOMAIN processed_folder.entries THEN name
    ELSE LET taken(n) == Numbered(name, n) \in DOMAIN processed_folder.entries
         IN Numbered(name, CHOOSE n \in 1..9 : ~taken(n) /\ \A m \in 1..n - 1 : taken(m))

\* what a move_invoice call does according to its result
MoveRule ==
    LET filename == arg'[1]
        pending == pending_folder.entries
        processed == processed_folder.entries
    IN /\ filename \notin DOMAIN pending => ~out'
       /\ IF out'
          THEN /\ filename \in DOMAIN pending
               /\ pending_folder'.exists
               /\ DOMAIN pending_folder'.entries = DOMAIN pending \ {filename}
               /\ \A n \in DOMAIN pending \ {filename} :
                    pending_folder'.entries[n] = pending[n]
               /\ FirstFree(filename) \notin DOMAIN processed
               /\ DOMAIN processed_folder'.entries =
                    DOMAIN processed \cup {FirstFree(filename)}
               /\ processed_folder'.entries[FirstFree(filename)] = pending[filename]
               /\ \A n \in DOMAIN processed : processed_folder'.entries[n] = processed[n]
          ELSE UNCHANGED <<pending_folder, processed_folder, known_files>>

\* C19: a move_invoice call that returns true takes exactly the named entry
\* out of the pending folder and adds exactly that entry to the processed
\* folder, under its own name or, when an entry has that name, under the
\* first free of base_1.ext, base_2.ext, ..., and every entry the processed
\* folder had is still there unchanged; a call that names no entry of the
\* pending folder returns false and leaves both folders and known_files as
\* they were, so the same name moves again only after it was put there again.
C19_MoveInvoice == [][pc' = "move_invoice" => MoveRule]_vars

\* the same for calls whose filename is not the empty string
MoveOfAFileName == [][pc' = "move_invoice" /\ arg'[1] # <<>> => MoveRule]_vars

\* a move found its name and base_1.ext taken and used base_2.ext
MovedToSecondFree ==
    /\ pc = "move_invoice"
    /\ out
    /\ Numbered(arg[1], 2) \in DOMAIN processed_folder.entries
    /\ processed_folder.entries[Numbered(arg[1], 2)].id = MaxFiles

\* match_recipient has returned
Matched == pc = "match_recipient"

\* the similarity of the recipient, stripped and in lower case, to entry i
Similarity(i) == ratio(StrLower(Strip(arg[1])), StrLower(vehicles.items[i][2]))

\* score a is at least score b
AtLeast(a, b) == a[1] * b[2] >= b[1] * a[2]

\* what match_recipient returns for a recipient, given whether an entry of
\* the database reaches the threshold
MatchRule(reached) ==
    LET id_found == out[2] # NOT_AVAILABLE
    IN /\ id_found <=> /\ vehicles.loaded /\ enabled
                       /\ Strip(arg[1]) # <<>> /\ arg[1] # PARSING_FAILED
                       /\ reached
       /\ id_found =>
            \E i \in 1..Len(vehicles.items) :
                /\ out = <<vehicles.items[i][2], vehicles.items[i][1], Similarity(i)>>
                /\ \A j \in 1..Len(vehicles.items) : AtLeast(Similarity(i), Similarity(j))
       /\ ~id_found => out[1] = arg[1]

\* C20: match_recipient returns an id other than "N/A" iff the database is
\* loaded, matching is enabled, the recipient is neither blank nor the
\* sentinel, and the best similarity over the entries of the database is at
\* least the threshold; it then returns the legal name, the id and the score
\* of an entry no other entry beats; otherwise it returns the recipient as
\* given, with "N/A".
C20_MatchRecipient ==
    Matched =>
        MatchRule(\E i \in 1..Len(vehicles.items) : AtLeast(Similarity(i), threshold))

\* the same when only a similarity above zero counts as reaching the threshold
MatchAboveZero ==
    Matched =>
        MatchRule(\E i \in 1..Len(vehicles.items) :
                    Similarity(i)[1] > 0 /\ AtLeast(Similarity(i), threshold))

\* a recipient that differs from an entry in case and a letter was matched
\* to it at a threshold above zero
FuzzyMatchReturned ==
    /\ Matched
    /\ threshold[1] > 0
    /\ out[2] # NOT_AVAILABLE
    /\ StrLower(Strip(arg[1])) # StrLower(out[1])

\* the positions of the trial order whose strategy accepts the text
Eligible == {k \in 1..Len(strategy_names) : can_handle(strategy_names[k], text, lines)}

\* the record of the strategy at position k, and what it scores
RecordOf(k) == parse(strategy_names[k], text, pdf.finds, pdf.party)
ScoreOf(k) == calculate_confidence(RecordOf(k))

\* the strategy loop is over and no eligible strategy reached 0.9
LoopEndedBelowExit ==
    /\ pc \in {"ensemble", "done"}
    /\ strategy_names # <<>>
    /\ \A k \in Eligible : FLess(ScoreOf(k), F_090)

\* C21: when no strategy result scores >= 0.9, the rule-based record
\* parse_invoice chose (best_result) is the record of an eligible strategy
\* that no eligible strategy outscores, and of the first such in the trial
\* order; a record is chosen whenever an eligible strategy scores above 0.0.
C21_BestOfEligible ==
    LoopEndedBelowExit =>
        /\ best_result # None =>
              \E k \in Eligible :
                  /\ best_strategy = strategy_names[k]
                  /\ best_result = RecordOf(k)
                  /\ best_confidence = ScoreOf(k)
                  /\ \A j \in Eligible : FLeq(ScoreOf(j), ScoreOf(k))
                  /\ \A j \in Eligible : ScoreOf(j) = ScoreOf(k) => k <= j
        /\ (\E k \in Eligible : FLess(F_0, ScoreOf(k))) => best_result # None

\* three strategies were eligible: the first scored less than the second, the
\* third the same as the second, and the second was chosen
C21_Witness ==
    /\ LoopEndedBelowExit
    /\ \E i, j, k \in Eligible :
          /\ i < j /\ j < k
          /\ FLess(ScoreOf(i), ScoreOf(j))
          /\ ScoreOf(k) = ScoreOf(j)
          /\ best_strategy = strategy_names[j]

\* the four strategies have parsed one text
Parsed == pc = "parse"

\* the four records agree on the fields of keys
AgreeOn(keys) ==
    \A s1 \in DOMAIN out, s2 \in DOMAIN out : \A k \in keys : out[s1][k] = out[s2][k]

\* C22: on one and the same text the records of the four strategies agree on
\* amount, currency and every banking, metadata and tax field.
C22_SharedFieldsAgree ==
    Parsed => AgreeOn({"amount", "currency"} \cup BankingKeys \cup MetadataKeys \cup TaxKeys)

\* the same without the currency, and with it on a text that names the euro
\* or the dollar, or no currency at all
SharedFieldsAgreeButPound ==
    Parsed =>
        /\ AgreeOn({"amount"} \cup BankingKeys \cup MetadataKeys \cup TaxKeys)
        /\ \/ Contains(arg.text, <<"E", "U", "R">>) \/ Contains(arg.text, <<"$">>)
           \/ ~(Contains(arg.text, <<"pound">>) \/ Contains(arg.text, <<"G", "B", "P">>))
           => AgreeOn({"currency"})

\* the strategies differed in a party field and in nothing else
OnlyPartiesDiffer ==
    /\ Parsed
    /\ out[TwoColumn]["sender_address"] # out[PatternFallback]["sender_address"]
    /\ AgreeOn(ResultKeys \ PartyKeys)
    /\ out[TwoColumn]["iban"] # PARSING_FAILED

\* the record merge_results returns for the same arguments under the other
\* setting of prefer_regex
MergedWithFlagFlipped ==
    merge_results([config EXCEPT !.ml.ensemble.prefer_regex = ~@],
                  arg.regex_result, arg.ml_result, arg.regex_confidence, arg.ml_confidence)

\* the fields of which the rule-based or the ML value is the sentinel
OneSideSentinel ==
    {field \in DOMAIN arg.regex_result :
        \/ arg.regex_result[field] = PARSING_FAILED
        \/ Get(arg.ml_result, field, PARSING_FAILED) = PARSING_FAILED}

\* C23: prefer_regex has an effect only on fields where both the rule-based and
\* the ML value are non-sentinel: on every field where at least one side is the
\* sentinel the merged value is the same with the flag on and with the flag off.
C23_FlagOnlyWhereBothPresent ==
    Merged => \A field \in OneSideSentinel : out[field] = MergedWithFlagFlipped[field]

\* the flag decided a field both sides gave, next to a field only the ML side
\* gave and a field only the rules gave
C23_Witness ==
    /\ Merged
    /\ \E field \in DOMAIN out \ OneSideSentinel : out[field] # MergedWithFlagFlipped[field]
    /\ \E field \in OneSideSentinel :
          /\ arg.regex_result[field] = PARSING_FAILED
          /\ out[field] # PARSING_FAILED
    /\ \E field \in OneSideSentinel :
          /\ arg.regex_result[field] # PARSING_FAILED
          /\ out[field] = arg.regex_result[field]

\* normalize_amount has returned the record `out` for a parsable string
Normalized == pc = "normalize_amount" /\ arg.amount_str \notin {<<>>, PARSING_FAILED}

\* the amount string once the currency sign and the outer whitespace are off
CleanAmount == Strip(Remove(arg.amount_str, "$"))
BothSeparators == HasChar(CleanAmount, ".") /\ HasChar(CleanAmount, ",")
CommaIsLast ==
    \E i \in 1..Len(CleanAmount) :
        CleanAmount[i] = "," /\ \A j \in i..Len(CleanAmount) : CleanAmount[j] # "."

\* the number the string spells with the separator that appears last as the
\* decimal separator and the other as the thousands separator; None if it spells none
LastIsDecimal ==
    float(IF CommaIsLast THEN ReplaceChar(Remove(CleanAmount, "."), ",", ".")
          ELSE Remove(CleanAmount, ","))

\* a positive number is returned as the value, anything else as invalid with no value
Reports(number) ==
    IF number # None /\ number[1] > 0
    THEN out.valid /\ out.amount = number
    ELSE ~out.valid /\ out.amount = None

\* C24: for a string with both '.' and ',' normalize_amount takes the one that
\* appears last as the decimal separator and the other as the thousands
\* separator under every currency and language hint; a non-positive result is
\* reported as invalid with no value.
C24_LastSeparatorIsDecimal ==
    Normalized =>
        /\ BothSeparators => Reports(LastIsDecimal)
        /\ out.valid => out.amount # None /\ out.amount[1] > 0
        /\ ~out.valid => out.amount = None

\* what holds: the rule of the last separator under the EUR or German hint and,
\* under the other hints, for a string whose last separator is the dot; there a
\* string whose last separator is the comma is always invalid
LastSeparatorUnlessCommaWithoutGermanHint ==
    Normalized =>
        /\ BothSeparators /\ (arg.currency = <<"E", "U", "R">> \/ arg.language = "de")
              => Reports(LastIsDecimal)
        /\ BothSeparators /\ ~(arg.currency = <<"E", "U", "R">> \/ arg.language = "de")
              => IF CommaIsLast THEN ~out.valid ELSE Reports(LastIsDecimal)
        /\ out.valid => out.amount # None /\ out.amount[1] > 0
        /\ ~out.valid => out.amount = None

\* with one kind of separator the hints change nothing in the value
HintsNeverDecideOneSeparator ==
    Normalized /\ ~BothSeparators =>
        \A currency \in {None, <<"E", "U", "R">>, <<"U", "S", "D">>}, language \in {"en", "de"} :
            normalize_amount(arg.amount_str, currency, language).amount = out.amount

\* a German-format amount under the dollar hint
GermanAmountUnderDollarHint ==
    /\ Normalized
    /\ arg.amount_str = <<"1", ".", "0", ",", "1">>
    /\ arg.currency = <<"U", "S", "D">>
    /\ arg.language = "en"
    /\ ~out.valid

\* extract_banking_info has returned the record `out` for the finds `arg`
BankingExtracted == pc = "extract_banking_info"

\* the first match of the pattern, without its spaces, is a checksum-valid IBAN
ValidFirstMatch(pattern) ==
    arg[pattern] # NoMatch /\ validate_iban(Remove(arg[pattern], " "))

\* C25: extract_banking_info populates iban whenever the first match of the
\* labeled or of the unlabeled pattern is a checksum-valid IBAN; a labeled
\* candidate that fails the checksum does not stop a valid unlabeled candidate
\* from being accepted.
C25_EitherIbanPatternPopulates ==
    BankingExtracted =>
        /\ ValidFirstMatch("IBAN_PATTERN_LABELED")
              => out["iban"] = Remove(arg["IBAN_PATTERN_LABELED"], " ")
        /\ ~ValidFirstMatch("IBAN_PATTERN_LABELED") /\ ValidFirstMatch("IBAN_PATTERN_UNLABELED")
              => out["iban"] = Remove(arg["IBAN_PATTERN_UNLABELED"], " ")

\* what holds: the unlabeled match is accepted only where the labeled pattern
\* finds nothing; a labeled match that fails the checksum leaves iban at the sentinel
UnlabeledOnlyWithoutLabeled ==
    BankingExtracted =>
        out["iban"] =
            IF ValidFirstMatch("IBAN_PATTERN_LABELED")
            THEN Remove(arg["IBAN_PATTERN_LABELED"], " ")
            ELSE IF arg["IBAN_PATTERN_LABELED"] = NoMatch
                    /\ ValidFirstMatch("IBAN_PATTERN_UNLABELED")
            THEN Remove(arg["IBAN_PATTERN_UNLABELED"], " ")
            ELSE PARSING_FAILED

\* a labeled IBAN with a wrong checksum next to a valid unlabeled one
InvalidLabeledHidesUnlabeled ==
    /\ BankingExtracted
    /\ arg["IBAN_PATTERN_LABELED"] # NoMatch
    /\ ~ValidFirstMatch("IBAN_PATTERN_LABELED")
    /\ ValidFirstMatch("IBAN_PATTERN_UNLABELED")
    /\ out["iban"] = PARSING_FAILED

\* the first of the candidates that is an account number
FirstAccount(us, uk, generic) ==
    IF Truthy(us) THEN us
    ELSE IF Truthy(uk) THEN uk
    ELSE IF Truthy(generic) THEN generic
    ELSE PARSING_FAILED

\* C26: called from extract_banking_info, extract_account_number_smart applies
\* the US account patterns only if a routing number was extracted and the UK
\* 8-digit account patterns only if a sort code was extracted; when neither was
\* extracted only the generic account-number patterns are consulted.
C26_AccountPatternsByContext ==
    BankingExtracted =>
        out["account_number"] =
            FirstAccount(IF out["routing_number"] # PARSING_FAILED
                         THEN UsAccountFrom(arg, 1) ELSE NoMatch,
                         IF out["sort_code"] # PARSING_FAILED
                         THEN UkAccountFrom(arg, 1) ELSE NoMatch,
                         GenericAccountFrom(arg, 1))

\* what holds: the US, then the UK, then the generic patterns are consulted
\* whatever was extracted before
AccountPatternsWhateverContext ==
    BankingExtracted =>
        out["account_number"] =
            FirstAccount(UsAccountFrom(arg, 1), UkAccountFrom(arg, 1),
                         GenericAccountFrom(arg, 1))

\* an account number of a US pattern returned though no routing number was
\* extracted and the generic patterns find another
UsAccountWithoutRouting ==
    /\ BankingExtracted
    /\ out["routing_number"] = PARSING_FAILED
    /\ out["sort_code"] = PARSING_FAILED
    /\ out["account_number"] = UsAccountFrom(arg, 1)
    /\ Truthy(GenericAccountFrom(arg, 1))
    /\ out["account_number"] # GenericAccountFrom(arg, 1)

\* the strategy loop was left by the break: its last pass scored 0.9 or more
EarlyExit ==
    /\ pc \in {"ensemble", "done"}
    /\ log # <<>>
    /\ log[Len(log)].op = "parse"
    /\ FLeq(F_090, log[Len(log)].confidence)

\* C27: whenever the strategy loop exits early, the best-so-far record is the
\* record of the strategy that scored >= 0.9: the record that triggers the exit
\* and the record carried forward as the rule-based result are the same.
C27_ExitRecordIsBest ==
    EarlyExit =>
        /\ best_strategy = strategy_names[idx]
        /\ best_strategy = log[Len(log)].strategy
        /\ best_result = RecordOf(idx)
        /\ best_confidence = log[Len(log)].confidence

\* the break left strategies untried, after an earlier strategy had given a
\* record with a lower, positive score
C27_Witness ==
    /\ EarlyExit
    /\ idx < Len(strategy_names)
    /\ \E j \in Eligible : j < idx /\ FLess(F_0, ScoreOf(j))

\* the ensemble block has merged the best rule-based record with the record of
\* the entity extractor, the rule-based values preferred
MergedPreferringRegex ==
    /\ pc = "done"
    /\ ml_status = "merged"
    /\ config.ml.ensemble.prefer_regex

\* C28: with prefer_regex on, the confidence calculate_confidence gives the
\* merged record is never lower than the confidence of the rule-based record it
\* was merged from.
C28_MergedNotBelowRuleBased ==
    MergedPreferringRegex =>
        /\ best_confidence = calculate_confidence(best_result)
        /\ FLeq(best_confidence, calculate_confidence(result))

\* the merged record took a field from the entity extractor and scores higher
\* than the rule-based record
C28_Witness ==
    /\ MergedPreferringRegex
    /\ \E k \in DOMAIN result : best_result[k] = PARSING_FAILED /\ result[k] # PARSING_FAILED
    /\ FLess(best_confidence, calculate_confidence(result))

\* the same for merge_results called on its own
MergeCallNotBelowRuleBased ==
    Merged /\ config.ml.ensemble.prefer_regex =>
        FLeq(calculate_confidence(arg.regex_result), calculate_confidence(out))

\* a step in which scan_folder returns to the background thread
ScanReturns == scan_thread.pc = "listed" /\ scan_thread'.pc = "sleep"

\* C29: with the mover thread running move_invoice concurrently with the
\* background thread's scan_folder, a file that has been moved to processed is
\* never afterwards reported by scan_folder as a new file, and so never put into
\* the table again, unless a new file of that name is placed in pending: every
\* name scan_folder reports is the name of a PDF file in the pending folder.
C29_MovedNeverReported ==
    [][ScanReturns =>
          \A i \in 1..Len(scan_thread'.new_files) : scan_thread'.new_files[i] \in all_pdfs
      ]_vars

\* what holds: every reported name was a PDF file of the pending folder when
\* the folder was listed, and was not known when the scan returned
ReportedWereListed ==
    [][ScanReturns =>
          \A i \in 1..Len(scan_thread'.new_files) :
              /\ scan_thread'.new_files[i] \in scan_thread.all_pdfs
              /\ scan_thread'.new_files[i] \notin known_files
      ]_vars

\* a file in the table of which the pending folder holds nothing and the
\* processed folder the moved file: the row of a file reported after its move
MovedFileBackInTable ==
    /\ scan_thread.pc = "sleep"
    /\ pending_folder.entries = <<>>
    /\ \E name \in tree :
          /\ name \in known_files
          /\ name \in DOMAIN processed_folder.entries
          /\ scan_thread.new_files = <<name>>

\* a getter has returned; arg holds what it returned on each call of the row
GetterReturned == pc \in {"get_ml_extractor", "get_layout_classifier"}
GlobalOfGetter == IF pc = "get_ml_extractor" THEN _ml_extractor ELSE _layout_classifier

\* C30: for each lazily initialised collaborator, after one successful
\* initialisation every later call returns that same instance without
\* constructing another; after a failed initialisation the global stays unset,
\* the call returns none, and the next call attempts initialisation again (it
\* can succeed where the configuration names a model).
C30_LazyGetters ==
    GetterReturned =>
        /\ out = arg[Len(arg)]
        /\ GlobalOfGetter = out
        /\ \A i, j \in 1..Len(arg) : i < j /\ arg[i] # "None" => arg[j] = arg[i]
        /\ out = "None" /\ "ml" \in DOMAIN config /\ Len(arg) < MaxGetterCalls
              => ENABLED (CallLazyGetter /\ out' # "None")

\* a failed initialisation, a second call that succeeds and a third that returns
\* the instance of the second
C30_Witness ==
    /\ GetterReturned
    /\ Len(arg) = 3
    /\ arg[1] = "None"
    /\ arg[2] # "None"
    /\ arg[3] = arg[2]
    /\ GlobalOfGetter = arg[2]

=============================================================================
